---- MODULE Spec2Model ----
(***************************************************************************)
(* Model of the catalog resolution and library-sync pipeline of music-mcp: *)
(* MusicKitClient (services/musickit-client.ts), the create_catalog_-      *)
(* playlist tool (tools/create-catalog-playlist.ts), the catalog paths of  *)
(* manage_playlist (tools/playlist-management.ts) and the catalog tools of *)
(* tools/catalog-search.ts and tools/discovery.ts.                         *)
(*                                                                         *)
(* Strings are sequences of characters.  A character is a one-character    *)
(* TLA+ string, except for six non-ASCII code points that are written      *)
(* with ASCII names: "e'" is U+00E9 (e with acute, precomposed), "E'" is   *)
(* U+00C9, "'" is U+0301 (the combining acute accent), "cgj" is U+034F     *)
(* (the combining grapheme joiner), "ta" is U+0591 (the Hebrew accent      *)
(* etnahta) and "sh" is U+05B0 (the Hebrew point sheva).                   *)
(* Scores are kept in tenths: 4 stands for 0.4 and 10 for 1.0.             *)
(***************************************************************************)
EXTENDS Integers, Sequences, FiniteSets, TLC

(***************************************************************************)
(* Bounds of the model.                                                    *)
(***************************************************************************)
MaxBatch == 3

MaxResults == 2

MaxLen == 3

MaxFairBatch == 1

\* longest batch of each of two interleaved calls
MaxPairBatch == 1

\* latest time, in hours, a token expires at
MaxTime == 3

\* most requests the callback server handles
MaxCallbacks == 2

(***************************************************************************)
(* Characters.                                                             *)
(***************************************************************************)
Uppers == <<"A","B","C","D","E","F","G","H","I","J","K","L","M",
            "N","O","P","Q","R","S","T","U","V","W","X","Y","Z">>

Lowers == <<"a","b","c","d","e","f","g","h","i","j","k","l","m",
            "n","o","p","q","r","s","t","u","v","w","x","y","z">>

Digits == {"0","1","2","3","4","5","6","7","8","9"}

Range(s) == {s[i] : i \in DOMAIN s}

\* String.prototype.toLowerCase, one code point
LowerChar(c) ==
    IF \E i \in DOMAIN Uppers : Uppers[i] = c
    THEN Lowers[CHOOSE i \in DOMAIN Uppers : Uppers[i] = c]
    ELSE IF c = "E'" THEN "e'" ELSE c

\* canonical decomposition (NFD) of one code point
Decompose(c) ==
    IF c = "e'" THEN <<"e", "'">>
    ELSE IF c = "E'" THEN <<"E", "'">>
    ELSE <<c>>

\* the canonical combining class of a code point: 0 for a starter
CCC(c) ==
    IF c = "'" THEN 230
    ELSE IF c = "ta" THEN 220
    ELSE IF c = "sh" THEN 10
    ELSE 0

\* the class [U+0300-U+036F] of combining diacritical marks
IsCombining(c) == c \in {"'", "cgj"}

\* the class \s
IsSpace(c) == c = " "

\* the class \w, which is ASCII only: [A-Za-z0-9_]
IsWordChar(c) == c \in Range(Uppers) \cup Range(Lowers) \cup Digits \cup {"_"}

(***************************************************************************)
(* Strings.                                                                *)
(***************************************************************************)
\* the value of a missing property or argument
Undefined == <<"undefined">>

\* JavaScript truthiness of a string-or-undefined value
Truthy(s) == s # Undefined /\ s # <<>>

toLowerCase(s) == [i \in DOMAIN s |-> LowerChar(s[i])]

RECURSIVE DecomposeAll(_)
DecomposeAll(s) ==
    IF s = <<>> THEN <<>> ELSE Decompose(Head(s)) \o DecomposeAll(Tail(s))

\* the canonical ordering of the marks: as long as a code point is followed
\* by one of a lower combining class that is not a starter, the first such
\* pair is exchanged
RECURSIVE CanonicalOrder(_)
CanonicalOrder(s) ==
    LET Misplaced == { k \in 1..(Len(s) - 1) :
                         CCC(s[k + 1]) > 0 /\ CCC(s[k]) > CCC(s[k + 1]) }
    IN  IF Misplaced = {} THEN s
        ELSE LET k == CHOOSE x \in Misplaced : \A y \in Misplaced : x <= y
             IN  CanonicalOrder([s EXCEPT ![k] = s[k + 1], ![k + 1] = s[k]])

\* String.prototype.normalize("NFD"): the canonical decomposition of every
\* code point, then the canonical ordering
NFD(s) == CanonicalOrder(DecomposeAll(s))

RECURSIVE TrimStart(_)
TrimStart(s) ==
    IF s # <<>> /\ IsSpace(Head(s)) THEN TrimStart(Tail(s)) ELSE s

RECURSIVE TrimEnd(_)
TrimEnd(s) ==
    IF s # <<>> /\ IsSpace(s[Len(s)])
    THEN TrimEnd(SubSeq(s, 1, Len(s) - 1))
    ELSE s

trim(s) == TrimEnd(TrimStart(s))

IsNotCombining(c) == ~IsCombining(c)

\* a.includes(b)
includes(a, b) ==
    \E i \in 0..(Len(a) - Len(b)) : SubSeq(a, i + 1, i + Len(b)) = b

\* the template string `${a} ${b}`
Spaced(a, b) == a \o <<" ">> \o b

normalizeString(str) == trim(SelectSeq(NFD(str), IsNotCombining))

(***************************************************************************)
(* fuzzyMatch and its helper clean.                                        *)
(***************************************************************************)
StopWords == { <<"t","h","e">>, <<"a">>, <<"a","n">>, <<"f","e","a","t">>,
               <<"f","t">>,
               <<"f","e","a","t","u","r","i","n","g">> }

IsWordOrSpace(c) == IsWordChar(c) \/ IsSpace(c)

\* the maximal runs of non-space characters of s, in order: what
\* s.trim().split(/\s+/) yields, without the single "" an empty string gives
RECURSIVE SplitWords(_, _)
SplitWords(s, cur) ==
    IF s = <<>> THEN (IF cur = <<>> THEN <<>> ELSE <<cur>>)
    ELSE IF IsSpace(Head(s))
         THEN (IF cur = <<>> THEN <<>> ELSE <<cur>>) \o SplitWords(Tail(s), <<>>)
         ELSE SplitWords(Tail(s), Append(cur, Head(s)))

\* After the first replace only \w and \s characters are left, so the \b of
\* the second replace sit exactly at the ends of the runs of \w characters:
\* it deletes the runs that are a stop word, compared ignoring case.
KeepWord(w) == toLowerCase(w) \notin StopWords /\ Len(w) > 2

clean(s) == SelectSeq(SplitWords(SelectSeq(s, IsWordOrSpace), <<>>), KeepWord)

Min(a, b) == IF a <= b THEN a ELSE b

fuzzyMatch(str1, str2) ==
    LET words1 == clean(str1)
        words2 == clean(str2)
        matches == Cardinality({ i \in DOMAIN words1 :
                        \E j \in DOMAIN words2 :
                            \/ includes(words2[j], words1[i])
                            \/ includes(words1[i], words2[j]) })
    IN  \* matches >= Math.min(words1.length, words2.length) * 0.6
        10 * matches >= 6 * Min(Len(words1), Len(words2))

(***************************************************************************)
(* MusicKitClient.scoreTrackMatch, in tenths.                              *)
(***************************************************************************)
Threshold == 4

\* variant of TrackPoints whose first tier compares the normalized strings
TrackPointsNormalized(trackName, targetTrackLower) ==
    IF normalizeString(trackName) = normalizeString(targetTrackLower) THEN 5
    ELSE IF includes(trackName, targetTrackLower)
            \/ includes(targetTrackLower, trackName) THEN 3
    ELSE IF fuzzyMatch(trackName, targetTrackLower) THEN 2
    ELSE 0

TrackPoints(trackName, targetTrackLower) ==
    IF trackName = targetTrackLower THEN 5
    ELSE IF includes(trackName, targetTrackLower)
            \/ includes(targetTrackLower, trackName) THEN 3
    ELSE IF fuzzyMatch(trackName, targetTrackLower) THEN 2
    ELSE 0

ArtistPoints(artistName, targetArtist) ==
    LET targetArtistLower ==
            IF Truthy(targetArtist) THEN toLowerCase(targetArtist) ELSE <<>>
    IN  IF Truthy(targetArtist)
        THEN IF artistName = targetArtistLower THEN 5
             ELSE IF includes(artistName, targetArtistLower)
                     \/ includes(targetArtistLower, artistName) THEN 3
             ELSE IF fuzzyMatch(artistName, targetArtistLower) THEN 1
             ELSE 0
        ELSE 2

(***************************************************************************)
(* MusicKitClient.smartSearchTrack: the query variants and the choice of   *)
(* the best candidate.                                                     *)
(***************************************************************************)
\* variant of scoreTrackMatch that compares the strings as they are written
scoreTrackMatchCaseSensitive(track, targetTrack, targetArtist) ==
    Min(TrackPoints(track.name, targetTrack)
          + ArtistPoints(track.artistName, targetArtist),
        10)

\* variant of scoreTrackMatch that gives the credit of a missing artist to
\* every call and returns the sum as it is
scoreTrackMatchUncapped(track, targetTrack, targetArtist) ==
    TrackPoints(toLowerCase(track.name), toLowerCase(targetTrack))
      + ArtistPoints(toLowerCase(track.artistName), targetArtist) + 2

scoreTrackMatch(track, targetTrack, targetArtist) ==
    Min(TrackPoints(toLowerCase(track.name), toLowerCase(targetTrack))
          + ArtistPoints(toLowerCase(track.artistName), targetArtist),
        10)

\* variant of BuildQueries that adds the raw variants without comparing the
\* normalized forms with the input
BuildQueriesAlwaysRaw(trackName, artistName) ==
    LET normalizedTrack == normalizeString(trackName)
        normalizedArtist ==
            IF Truthy(artistName) THEN normalizeString(artistName) ELSE Undefined
    IN  IF Truthy(artistName) /\ Truthy(normalizedArtist)
        THEN << Spaced(normalizedTrack, normalizedArtist),
                Spaced(normalizedArtist, normalizedTrack),
                normalizedTrack,
                normalizedArtist,
                Spaced(trackName, artistName),
                Spaced(artistName, trackName),
                trackName,
                artistName >>
        ELSE <<normalizedTrack, trackName>>

BuildQueries(trackName, artistName) ==
    LET normalizedTrack == normalizeString(trackName)
        normalizedArtist ==
            IF Truthy(artistName) THEN normalizeString(artistName) ELSE Undefined
    IN  IF Truthy(artistName) /\ Truthy(normalizedArtist)
        THEN << Spaced(normalizedTrack, normalizedArtist),
                Spaced(normalizedArtist, normalizedTrack),
                normalizedTrack,
                normalizedArtist >>
             \o (IF normalizedTrack # trackName \/ normalizedArtist # artistName
                 THEN << Spaced(trackName, artistName),
                         Spaced(artistName, trackName),
                         trackName,
                         artistName >>
                 ELSE <<>>)
        ELSE <<normalizedTrack>>
             \o (IF normalizedTrack # trackName THEN <<trackName>> ELSE <<>>)

(***************************************************************************)
(* MusicKitClient.getLibrarySearchTerms.                                   *)
(***************************************************************************)
getLibrarySearchTerms(track) ==
    << track.name,
       Spaced(track.name, track.artistName),
       Spaced(track.artistName, track.name),
       Spaced(track.name, track.albumName) >>

(***************************************************************************)
(* The values the model draws its inputs from.                             *)
(***************************************************************************)
HeyJoe == <<"H","e","y"," ","J","o","e">>

HeyJoeAccented == <<"H","e'","y"," ","J","o","e">>

HeyBoAccented == <<"H","e'","y"," ","B","o">>

Joe == <<"J","o","e">>

Abe == <<"A","b","e">>

Bob == <<"B","o","b">>

\* what the remote catalog can return
Catalog ==
    { [id |-> "k1", name |-> HeyJoe, artistName |-> Abe,
       albumName |-> <<"O","n","e">>],
      [id |-> "k2", name |-> Joe, artistName |-> Bob,
       albumName |-> <<"T","w","o">>] }

\* the { track, artist } objects a caller can put in a batch
Requests ==
    { [track |-> toLowerCase(HeyJoe), artist |-> toLowerCase(Abe)],
      [track |-> HeyJoeAccented, artist |-> Abe],
      [track |-> HeyBoAccented, artist |-> <<>>],
      [track |-> Undefined, artist |-> Abe] }

\* results.map((track) => ({ track, score: scoreTrackMatch(...) })) gives
\* the same score wherever a track appears, scoreTrackMatch being pure: the
\* call keeps the score of each track of the catalog against its arguments.
ScoresFor(trackName, artistName) ==
    [k \in Catalog |-> scoreTrackMatch(k, trackName, artistName)]

\* variant of BestIndex that takes the last of the candidates that share the
\* highest score
BestIndexLastOfTies(results, scores) ==
    CHOOSE i \in DOMAIN results :
        /\ \A j \in DOMAIN results : scores[results[j]] <= scores[results[i]]
        /\ \A j \in (i + 1)..Len(results) :
              scores[results[j]] < scores[results[i]]

\* scoredResults.sort((a, b) => b.score - a.score)[0]: Array.prototype.sort
\* is stable, so the head is the first candidate, in the order the remote
\* returned them, that has the highest score.
BestIndex(results, scores) ==
    CHOOSE i \in DOMAIN results :
        /\ \A j \in DOMAIN results : scores[results[j]] <= scores[results[i]]
        /\ \A j \in 1..(i - 1) : scores[results[j]] < scores[results[i]]

BestScore(results, scores) == scores[results[BestIndex(results, scores)]]

\* variant of Accepts with a lower threshold
AcceptsLower(score) == score >= Threshold - 1

\* the test on the head of the sorted candidates
Accepts(score) == score >= Threshold

SeqsUpTo(S, n) == UNION { [1..k -> S] : k \in 0..n }

\* the batches: up to MaxBatch requests, no request object twice
Batches ==
    { b \in SeqsUpTo(Requests, MaxBatch) :
        \A x, y \in DOMAIN b : x # y => b[x] # b[y] }

\* the library track the library holds for a catalog ID
LibraryTrackOf(catalogId) ==
    IF catalogId = "k1" THEN "i.k1" ELSE IF catalogId = "k2" THEN "i.k2" ELSE "i"

\* the HTTP statuses the remote answers with
Statuses == {200, 404, 500}

\* Response.ok
ok(status) == status \in 200..299

\* a fetch that was rejected: no response
Rejected == [kind |-> "reject", status |-> 0, songs |-> <<>>, data |-> <<>>]

\* what the fetch of searchCatalog can give: a response with a status and the
\* songs of its body, in the remote's relevance order, or a rejection
SearchResponses ==
    { [kind |-> "response", status |-> st, songs |-> sg, data |-> <<>>] :
        st \in Statuses, sg \in SeqsUpTo(Catalog, MaxResults) }
      \cup {Rejected}

\* MusicKitClient.searchCatalog after its token check: what the call gives
\* for the answer `resp` of its fetch, the songs or an error
searchCatalog(resp) ==
    IF resp.kind = "reject" \/ ~ok(resp.status)
    THEN [kind |-> "error", tracks |-> <<>>]
    ELSE [kind |-> "ok", tracks |-> resp.songs]

\* what a searchCatalog call can give its caller
SearchOutcomes == {searchCatalog(resp) : resp \in SearchResponses}

\* what the add-to-playlist script prints; execSync can also throw (a timeout
\* or a non-zero exit), which is the outcome "throw"
ErrorPrefix == <<"E","r","r","o","r">>

NoTracksPrefix == ErrorPrefix \o <<":"," ","N","o"," ","t","r","a","c","k","s",
                                   " ","f","o","u","n","d">>

AddedText == <<"A","d","d","e","d">>

NoTracksText == NoTracksPrefix \o <<" ","f","o","r">>

NoPlaylistText == ErrorPrefix \o <<":"," ","P","l","a","y","l","i","s","t">>

ScriptOutcomes ==
    [kind : {"return"}, text : {AddedText, NoTracksText, NoPlaylistText}]
      \cup {[kind |-> "throw", text |-> <<>>]}

\* a.startsWith(b)
startsWith(a, b) == Len(a) >= Len(b) /\ SubSeq(a, 1, Len(b)) = b

\* the answers of the library endpoints: a 2xx status, another status, or a
\* rejected fetch
HttpOutcomes == {"ok", "status", "throw"}

\* null, for a CatalogTrack | null
Null == [id |-> "null", name |-> <<>>, artistName |-> <<>>, albumName |-> <<>>]

(***************************************************************************)
(* State.                                                                  *)
(***************************************************************************)
VARIABLES
    op,              \* the tool call this run serves
    developerToken,  \* MusicKitClient.developerToken is set
    userToken,       \* MusicKitClient.userToken is set
    tracks,          \* input.tracks
    trackId,         \* input.trackId: a search term for add_track, a catalog
                     \*   ID for add_catalog_track
    useCatalogSearch,
    pc,              \* where the handler stands
    result,          \* what the handler returned
    i,               \* 1-based position of the step-1 loop in input.tracks
    searchResults,
    foundTracks,
    notFoundTracks,
    failedTracks,
    addedCount,
    libraryIds,
    failedToMap,
    fi,              \* 1-based position of the loop over foundTracks
    ti,              \* 1-based position of the inner loop in searchTerms
    bestMatch,       \* the catalog track of tryAddFromCatalog (bestMatch)
                     \*   and of addCatalogTrackToPlaylist (track)
    ss,              \* the running smartSearchTrack call
    issued,          \* history: the queries this smartSearchTrack call sent
    hitAt,           \* history: first search of this call whose best candidate
                     \*   reached the threshold, 0 if none yet
    errSeen,         \* history: a search of this call failed
    lastOut,         \* history: what the last search of this call gave
    lastResults,     \* history: the tracks the last search of the running
                     \*   call gave, in the order of the remote
    soleResult,      \* history: the track the last search of the running
                     \*   call gave when it gave exactly one, else null
    libraryAdded,    \* history: catalog IDs of the library adds that the
                     \*   remote answered with a 2xx status
    bulkAdd,         \* history: "none", or how the remote answered the
                     \*   addTracksToLibrary call of the batch: "ok", "failed"
    playlistCreates, \* history: number of createPlaylistWithTracks calls
    scriptCalls,     \* history: the collection-add calls made for the current
                     \*   item, as [id, term] records
    scriptIds,       \* history: catalog IDs collection-add was called for
    succeeded,       \* history: requests for which a collection-add call
                     \*   returned a text without the Error prefix (the
                     \*   request of add_track and add_catalog_track is 1)
    onlyNoTracks,    \* history: every collection-add call of the current
                     \*   item returned the "No tracks found" error
    clientCalled,    \* history: the handler called a catalog or library
                     \*   operation of the client
    settleDelays,    \* history: number of sleeps of 2000 ms
    sinceSearch,     \* history: "none" before the first catalog search;
                     \*   "searched" after a search that was the first or
                     \*   came after a sleep; "undelayed" after a search
                     \*   that came straight after another search;
                     \*   "delayed" once the sleep of 100 ms of the step-1
                     \*   loop has elapsed since the last search
    lastCall,        \* the last direct call of a method of the client, with
                     \*   what it sent and what it returned
    bulkCalls,       \* history: the arguments of the addTracksToLibrary
                     \*   calls of the handler, in the order of the calls
    catalogAdd,      \* history of handleAddCatalogTrack: what getTrackById
                     \*   gave, input.addToLibrary, whether addTrackToLibrary
                     \*   was called and returned success, and the field
                     \*   addedToLibrary of the output
    scriptOut,       \* history: what the script of add_track gave for the
                     \*   caller's search term: "none" before it ran, then
                     \*   "added", "noTracks", "error" or "throw"
    envUserToken,    \* process.env.APPLE_MUSIC_USER_TOKEN
    envExpiresAt,    \* the time the token of the environment expires at:
                     \*   known to its issuer, not to the program
    tokenStore,      \* the content of ~/.music-mcp/tokens.json
    now,             \* Date.now(), in hours
    promise,         \* the promise of OAuthHandler.authorize()
    server,          \* the callback server: "none", "listening", "closed"
    timer,           \* the timer of authorize(): "none", "armed", "fired"
    handled,         \* history: number of requests handleCallback got
    lastRequest,     \* history: the last request handleCallback got
    pair             \* the frames of two handleCreateCatalogPlaylist calls
                     \*   that run interleaved; <<>> when one handler runs

configVars == <<op, developerToken, userToken, tracks, trackId,
                useCatalogSearch>>

handlerVars == <<pc, result, i, searchResults, foundTracks, notFoundTracks,
                 failedTracks, addedCount, libraryIds, failedToMap, fi, ti,
                 bestMatch>>

searchVars == <<ss, issued, hitAt, errSeen, lastOut, soleResult,
               lastResults>>

syncVars == <<libraryAdded, bulkAdd, playlistCreates, scriptCalls, scriptIds,
              succeeded, onlyNoTracks>>

traceVars == <<clientCalled, settleDelays, sinceSearch, lastCall>>

pairVars == <<pair>>

callVars == <<bulkCalls, scriptOut, catalogAdd>>

authVars == <<envUserToken, envExpiresAt, tokenStore, now>>

oauthVars == <<promise, server, timer, handled, lastRequest>>

vars == <<configVars, handlerVars, searchVars, syncVars, traceVars, pairVars,
          callVars, authVars, oauthVars>>

(***************************************************************************)
(* The user token of a MusicKitClient.                                     *)
(***************************************************************************)
\* 3600000 ms, in hours
Buffer == 1

\* 86400000 * 180 ms, in hours
Lifetime == 4320

\* user tokens
TokenA == <<"t","A">>

TokenB == <<"t","B">>

\* loadTokens() gives null: no file, or a file that does not parse
NoTokens == [file |-> FALSE, userToken |-> Undefined, expiresAt |-> 0]

\* the OAuthTokens that loadTokens() parsed
Stored(token, expiresAt) ==
    [file |-> TRUE, userToken |-> token, expiresAt |-> expiresAt]

\* variant of hasValidToken without the buffer of one hour
hasValidTokenNoBuffer(tokens, time) == tokens.file /\ tokens.expiresAt > time

\* OAuthHandler.hasValidToken()
hasValidToken(tokens, time) ==
    tokens.file /\ tokens.expiresAt > time + Buffer

\* OAuthHandler.getUserToken() || undefined
getUserToken(tokens, time) ==
    IF ~hasValidToken(tokens, time) THEN Undefined
    ELSE IF Truthy(tokens.userToken) THEN tokens.userToken
    ELSE Undefined

\* new MusicKitClient(config): this.userToken
constructorUserToken(dev, env, tokens, time) ==
    IF ~Truthy(env) /\ dev THEN getUserToken(tokens, time) ELSE env

\* a client whose user token, if it has one, comes from the environment
FromEnv ==
    /\ now = 1
    /\ tokenStore = NoTokens
    /\ envUserToken = IF userToken THEN TokenA ELSE Undefined
    /\ envExpiresAt = IF userToken THEN MaxTime ELSE 0

\* no method of the client was called directly
NoCall == [fn |-> "none"]

Idle == [state |-> "idle", trackName |-> <<>>, artistName |-> <<>>,
         queries |-> <<>>, qi |-> 0, scores |-> [k \in Catalog |-> 0],
         ret |-> Null]

Pending == [success |-> FALSE, error |-> "pending", data |-> FALSE,
            tracksAdded |-> 0, tracksNotFound |-> <<>>]

\* create_catalog_playlist has two handlers in the source: the one that fills
\* the playlist through the add-to-playlist script, and the one that maps the
\* catalog IDs to library IDs and creates the playlist with them
CreateOps == {"create_catalog_playlist", "create_catalog_playlist_ids"}

\* the actions of manage_playlist that reach the catalog
ManageOps == {"add_track", "add_catalog_track"}

\* the tools that search the catalog for the caller's query
SearchOps == {"search_apple_music_catalog", "discover_search_catalog"}

Ops == CreateOps \cup ManageOps \cup SearchOps
         \cup {"add_catalog_track_to_library"}

\* handleAddCatalogTrack has not run
NoAdd == [got |-> "none", addToLibrary |-> "undefined", called |-> FALSE,
          callSucceeded |-> FALSE, addedToLibrary |-> FALSE]

\* the state of a handler that has done nothing yet
Started ==
    /\ bestMatch = Null
    /\ pc = "start"
    /\ result = Pending
    /\ i = 0
    /\ searchResults = <<>>
    /\ foundTracks = <<>>
    /\ notFoundTracks = <<>>
    /\ failedTracks = <<>>
    /\ addedCount = 0
    /\ libraryIds = <<>>
    /\ failedToMap = <<>>
    /\ fi = 0
    /\ ti = 0
    /\ ss = Idle
    /\ issued = <<>>
    /\ hitAt = 0
    /\ errSeen = FALSE
    /\ lastOut = "none"
    /\ soleResult = Null
    /\ lastResults = <<>>
    /\ libraryAdded = {}
    /\ bulkAdd = "none"
    /\ playlistCreates = 0
    /\ scriptCalls = <<>>
    /\ scriptIds = {}
    /\ succeeded = {}
    /\ onlyNoTracks = TRUE
    /\ clientCalled = FALSE
    /\ settleDelays = 0
    /\ sinceSearch = "none"
    /\ lastCall = NoCall
    /\ bulkCalls = <<>>
    /\ scriptOut = "none"
    /\ catalogAdd = NoAdd
    /\ promise = [state |-> "none", token |-> Undefined, error |-> "none"]
    /\ server = "none"
    /\ timer = "none"
    /\ handled = 0
    /\ lastRequest = [path |-> "none", error |-> FALSE, token |-> Undefined]

Init ==
    /\ developerToken \in BOOLEAN
    /\ userToken \in BOOLEAN
    /\ \/ /\ op \in CreateOps
          /\ tracks \in Batches
          /\ trackId = <<>>
          /\ useCatalogSearch = FALSE
       \/ /\ op = "add_track"
          /\ tracks = <<>>
          /\ trackId \in {<<>>, Joe}
          /\ useCatalogSearch \in BOOLEAN
       \/ /\ op = "add_catalog_track"
          /\ tracks = <<>>
          /\ trackId \in {"", "k1", "k9"}
          /\ useCatalogSearch = FALSE
       \/ /\ op \in SearchOps
          /\ tracks = <<>>
          /\ trackId = <<>>
          /\ useCatalogSearch = FALSE
       \/ /\ op = "add_catalog_track_to_library"
          /\ tracks = <<>>
          /\ trackId \in {"k1", "k9"}
          /\ useCatalogSearch = FALSE
    /\ pair = <<>>
    /\ FromEnv
    /\ Started

(***************************************************************************)
(* handleCreateCatalogPlaylist.                                            *)
(***************************************************************************)
\* variant of isConfigured that does not look at the token
isConfiguredAlways == TRUE

isConfigured == developerToken

\* history: a searchCatalog call is made
Searched(since) ==
    IF since \in {"searched", "undelayed"} THEN "undelayed" ELSE "searched"

Failure(error) == [success |-> FALSE, error |-> error, data |-> FALSE,
                   tracksAdded |-> 0, tracksNotFound |-> <<>>]

\* variant of FailureWithData that counts the resolved tracks as added
FailureCountsResolved(error, notFound) ==
    [success |-> FALSE, error |-> error, data |-> TRUE,
     tracksAdded |-> Len(foundTracks), tracksNotFound |-> notFound]

FailureWithData(error, notFound) ==
    [success |-> FALSE, error |-> error, data |-> TRUE,
     tracksAdded |-> 0, tracksNotFound |-> notFound]

\* createMusicKitClient() and the isConfigured() gate
CheckConfigured ==
    /\ op \in CreateOps
    /\ pc = "start"
    /\ IF ~isConfigured
       THEN /\ result' = Failure("MusicKit not configured")
            /\ pc' = "done"
            /\ i' = i
       ELSE /\ pc' = "resolve"
            /\ i' = 1
            /\ result' = result
    /\ UNCHANGED <<configVars, pairVars, oauthVars, callVars, authVars,
                   traceVars, bestMatch, searchResults, foundTracks,
                   notFoundTracks, failedTracks, addedCount, libraryIds,
                   failedToMap, fi, ti, searchVars, syncVars>>

\* musicKit.smartSearchTrack(track, artist) up to its first await: the
\* normalisation and the list of queries; normalizeString throws a TypeError
\* when the track is not a string
CallSmartSearch ==
    /\ op \in CreateOps
    /\ pc = "resolve"
    /\ i <= Len(tracks)
    /\ ss.state = "idle"
    /\ IF tracks[i].track = Undefined
       THEN ss' = [Idle EXCEPT !.state = "threw"]
       ELSE ss' = [state |-> "searching",
                   trackName |-> tracks[i].track,
                   artistName |-> tracks[i].artist,
                   queries |-> BuildQueries(tracks[i].track, tracks[i].artist),
                   qi |-> 1,
                   scores |-> ScoresFor(tracks[i].track, tracks[i].artist),
                   ret |-> Null]
    /\ issued' = <<>>
    /\ hitAt' = 0
    /\ errSeen' = FALSE
    /\ lastOut' = "none"
    /\ soleResult' = Null
    /\ lastResults' = <<>>
    /\ clientCalled' = TRUE
    /\ UNCHANGED <<configVars, pairVars, oauthVars, callVars, authVars,
                   settleDelays, sinceSearch, lastCall, handlerVars,
                   syncVars>>

\* variant of AfterSearch that keeps the accepted candidate and goes on with
\* the remaining queries
AfterSearchKeepsGoing(call, out) ==
    LET accepted == /\ out.kind = "ok"
                    /\ out.tracks # <<>>
                    /\ Accepts(BestScore(out.tracks, call.scores))
        ret == IF accepted
               THEN out.tracks[BestIndex(out.tracks, call.scores)]
               ELSE call.ret
    IN  IF call.qi < Len(call.queries)
        THEN [call EXCEPT !.qi = call.qi + 1, !.ret = ret]
        ELSE [call EXCEPT !.state = "returned", !.ret = ret]

\* variant of AfterSearch without the try/catch around searchCatalog: the
\* error of a search leaves smartSearchTrack
AfterSearchErrorRaises(call, out) ==
    IF out.kind = "error"
    THEN [call EXCEPT !.state = "threw"]
    ELSE IF out.tracks # <<>> /\ Accepts(BestScore(out.tracks, call.scores))
    THEN [call EXCEPT
            !.state = "returned",
            !.ret = out.tracks[BestIndex(out.tracks, call.scores)]]
    ELSE IF call.qi < Len(call.queries)
         THEN [call EXCEPT !.qi = call.qi + 1]
         ELSE [call EXCEPT !.state = "returned", !.ret = Null]

\* what one pass of the loop over the queries does with the answer `out` of
\* searchCatalog(query, 10): the next state of the call
AfterSearch(call, out) ==
    IF /\ out.kind = "ok"
       /\ out.tracks # <<>>
       /\ Accepts(BestScore(out.tracks, call.scores))
    THEN [call EXCEPT
            !.state = "returned",
            !.ret = out.tracks[BestIndex(out.tracks, call.scores)]]
    ELSE IF call.qi < Len(call.queries)
         THEN [call EXCEPT !.qi = call.qi + 1]
         ELSE [call EXCEPT !.state = "returned", !.ret = Null]

OutcomeClass(call, out) ==
    IF out.kind = "error" THEN "error"
    ELSE IF out.tracks = <<>> THEN "empty"
    ELSE IF BestScore(out.tracks, call.scores) >= Threshold THEN "hit"
    ELSE "low"

\* one pass of the loop over the queries of smartSearchTrack
SearchCatalog ==
    /\ ss.state = "searching"
    /\ \E out \in SearchOutcomes :
         /\ ss' = AfterSearch(ss, out)
         /\ issued' = Append(issued, ss.queries[ss.qi])
         /\ lastOut' = OutcomeClass(ss, out)
         /\ soleResult' = IF Len(out.tracks) = 1 THEN out.tracks[1] ELSE Null
         /\ lastResults' = out.tracks
         /\ errSeen' = (errSeen \/ out.kind = "error")
         /\ hitAt' = IF hitAt = 0 /\ OutcomeClass(ss, out) = "hit"
                     THEN Len(issued) + 1
                     ELSE hitAt
    /\ sinceSearch' = Searched(sinceSearch)
    /\ UNCHANGED <<configVars, pairVars, oauthVars, callVars, authVars,
                   clientCalled, settleDelays, lastCall, handlerVars,
                   syncVars>>

\* variant of ReceiveSearchResult without the try/catch of the loop: the
\* error of one request goes to the catch of the handler
ReceiveSearchResultNoCatch ==
    /\ op \in CreateOps
    /\ pc = "resolve"
    /\ ss.state \in {"returned", "threw"}
    /\ IF ss.state = "threw"
       THEN /\ result' = Failure("thrown error")
            /\ pc' = "done"
            /\ UNCHANGED <<searchResults, i>>
       ELSE /\ searchResults' = Append(searchResults, ss.ret)
            /\ i' = i + 1
            /\ UNCHANGED <<result, pc>>
    /\ ss' = Idle
    /\ soleResult' = Null
    /\ lastResults' = <<>>
    /\ sinceSearch' = IF ss.state = "returned" THEN "delayed"
                    ELSE sinceSearch
    /\ UNCHANGED <<configVars, pairVars, oauthVars, callVars, authVars,
                   clientCalled, settleDelays, lastCall, bestMatch,
                   foundTracks, notFoundTracks, failedTracks, addedCount,
                   libraryIds, failedToMap, fi, ti, issued, hitAt, errSeen,
                   lastOut, syncVars>>

\* variant of ReceiveSearchResult whose catch tries the request again
ReceiveSearchResultRetries ==
    /\ op \in CreateOps
    /\ pc = "resolve"
    /\ ss.state \in {"returned", "threw"}
    /\ IF ss.state = "returned"
       THEN /\ searchResults' = Append(searchResults, ss.ret)
            /\ i' = i + 1
       ELSE UNCHANGED <<searchResults, i>>
    /\ ss' = Idle
    /\ soleResult' = Null
    /\ lastResults' = <<>>
    /\ sinceSearch' = IF ss.state = "returned" THEN "delayed"
                    ELSE sinceSearch
    /\ UNCHANGED <<configVars, pairVars, oauthVars, callVars, authVars,
                   clientCalled, settleDelays, lastCall, bestMatch, pc,
                   result, foundTracks, notFoundTracks, failedTracks,
                   addedCount, libraryIds, failedToMap, fi, ti, issued, hitAt,
                   errSeen, lastOut, syncVars>>

\* the body of the step-1 loop after the call: push the track (and sleep), or
\* catch the error and push null
ReceiveSearchResult ==
    /\ op \in CreateOps
    /\ pc = "resolve"
    /\ ss.state \in {"returned", "threw"}
    /\ searchResults' =
         Append(searchResults, IF ss.state = "returned" THEN ss.ret ELSE Null)
    /\ i' = i + 1
    /\ ss' = Idle
    /\ soleResult' = Null
    /\ lastResults' = <<>>
    /\ sinceSearch' = IF ss.state = "returned" THEN "delayed"
                    ELSE sinceSearch
    /\ UNCHANGED <<configVars, pairVars, oauthVars, callVars, authVars,
                   clientCalled, settleDelays, lastCall, bestMatch, pc,
                   result, foundTracks, notFoundTracks, failedTracks,
                   addedCount, libraryIds, failedToMap, fi, ti, issued, hitAt,
                   errSeen, lastOut, syncVars>>

\* searchResults.forEach(...): the entries pushed for the positions k.. of
\* searchResults that satisfy `found`.  The field req is the position of the
\* request in input.tracks: it stands for the identity of the request.
RECURSIVE FoundFrom(_, _, _)
FoundFrom(results, input, k) ==
    IF k > Len(results) THEN <<>>
    ELSE (IF results[k] # Null
          THEN << [id |-> results[k].id,
                   name |-> results[k].name,
                   artist |-> results[k].artistName,
                   requestedTrack |-> input[k].track,
                   requestedArtist |-> input[k].artist,
                   req |-> k] >>
          ELSE <<>>) \o FoundFrom(results, input, k + 1)

RECURSIVE NotFoundFrom(_, _, _)
NotFoundFrom(results, input, k) ==
    IF k > Len(results) THEN <<>>
    ELSE (IF results[k] = Null
          THEN << [track |-> input[k].track, artist |-> input[k].artist,
                   req |-> k] >>
          ELSE <<>>) \o NotFoundFrom(results, input, k + 1)

\* the end of step 1: the two lists, and the return when nothing was found
ExtractFound ==
    /\ op \in CreateOps
    /\ pc = "resolve"
    /\ i > Len(tracks)
    /\ ss.state = "idle"
    /\ foundTracks' = FoundFrom(searchResults, tracks, 1)
    /\ notFoundTracks' = NotFoundFrom(searchResults, tracks, 1)
    /\ IF foundTracks' = <<>>
       THEN /\ result' = FailureWithData("No tracks found", notFoundTracks')
            /\ pc' = "done"
       ELSE /\ pc' = "addLibrary"
            /\ result' = result
    /\ UNCHANGED <<configVars, pairVars, oauthVars, callVars, authVars,
                   traceVars, bestMatch, i, searchResults, failedTracks,
                   addedCount, libraryIds, failedToMap, fi, ti, searchVars,
                   syncVars>>

\* variant of LibraryAddSucceeds that does not test response.ok
LibraryAddIgnoresStatus(trackIds, http) ==
    /\ developerToken
    /\ userToken
    /\ (trackIds = <<>> \/ http # "throw")

\* MusicKitClient.addTracksToLibrary(trackIds) and addTrackToLibrary(id):
\* whether the call reports success, given the answer `http` the fetch would
\* get.  Without a token no request is sent.
LibraryAddSucceeds(trackIds, http) ==
    /\ developerToken
    /\ userToken
    /\ (trackIds = <<>> \/ http = "ok")

LibraryAddMessage(trackIds, http) ==
    IF ~developerToken THEN "developer token not configured"
    ELSE IF ~userToken THEN "User token required"
    ELSE IF trackIds = <<>> THEN "No tracks to add"
    ELSE IF http = "ok" THEN "Successfully added"
    ELSE IF http = "status" THEN "Failed to add tracks to library"
    ELSE "Error adding tracks to library"

\* variant of IdsOf that lists the IDs from the last found track to the first
IdsOfReversed(found) ==
    [k \in DOMAIN found |-> found[Len(found) + 1 - k].id]

\* foundTracks.map((t) => t.id)
IdsOf(found) == [k \in DOMAIN found |-> found[k].id]

\* history: a library request was sent with both tokens and answered 2xx
RemoteAccepts(http) == developerToken /\ userToken /\ http = "ok"

\* step 2: one addTracksToLibrary call for the IDs of foundTracks, and the
\* return when it reports a failure
AddTracksToLibrary ==
    /\ op \in CreateOps
    /\ pc = "addLibrary"
    /\ \E http \in HttpOutcomes :
         /\ LET trackIds == IdsOf(foundTracks)
            IN  IF LibraryAddSucceeds(trackIds, http)
                THEN /\ pc' = IF op = "create_catalog_playlist"
                               THEN "settle" ELSE "mapIds"
                     /\ fi' = 1
                     /\ result' = result
                ELSE /\ pc' = "done"
                     /\ result' = FailureWithData(
                                      LibraryAddMessage(trackIds, http),
                                      notFoundTracks)
                     /\ fi' = fi
         /\ bulkAdd' = IF RemoteAccepts(http) THEN "ok" ELSE "failed"
         /\ libraryAdded' = IF RemoteAccepts(http)
                            THEN libraryAdded \cup Range(IdsOf(foundTracks))
                            ELSE libraryAdded
    /\ bulkCalls' = Append(bulkCalls, IdsOf(foundTracks))
    /\ UNCHANGED <<scriptOut, catalogAdd>>
    /\ clientCalled' = TRUE
    /\ UNCHANGED <<configVars, pairVars, oauthVars, authVars, settleDelays,
                   sinceSearch, lastCall, bestMatch, i, searchResults,
                   foundTracks, notFoundTracks, failedTracks, addedCount,
                   libraryIds, failedToMap, ti, searchVars, playlistCreates,
                   scriptCalls, scriptIds, succeeded, onlyNoTracks>>

\* variant of SettleDelay that goes on to step 3 without the sleep
SettleDelaySkipped ==
    /\ op = "create_catalog_playlist"
    /\ pc = "settle"
    /\ pc' = "createPlaylist"
    /\ settleDelays' = settleDelays
    /\ UNCHANGED <<configVars, pairVars, oauthVars, callVars, authVars,
                   clientCalled, sinceSearch, lastCall, bestMatch, result, i,
                   searchResults, foundTracks, notFoundTracks, failedTracks,
                   addedCount, libraryIds, failedToMap, fi, ti, searchVars,
                   syncVars>>

\* await sleep(2000)
SettleDelay ==
    /\ op = "create_catalog_playlist"
    /\ pc = "settle"
    /\ pc' = "createPlaylist"
    /\ settleDelays' = settleDelays + 1
    /\ UNCHANGED <<configVars, pairVars, oauthVars, callVars, authVars,
                   clientCalled, sinceSearch, lastCall, bestMatch, result, i,
                   searchResults, foundTracks, notFoundTracks, failedTracks,
                   addedCount, libraryIds, failedToMap, fi, ti, searchVars,
                   syncVars>>

\* MusicKitClient.createPlaylistWithTracks
CreatePlaylistSucceeds(http) == developerToken /\ userToken /\ http = "ok"

CreatePlaylistMessage(http) ==
    IF ~developerToken THEN "developer token not configured"
    ELSE IF ~userToken THEN "User token required"
    ELSE IF http = "ok" THEN "Successfully created playlist"
    ELSE IF http = "status" THEN "Failed to create playlist"
    ELSE "Error creating playlist"

\* step 3: the empty playlist, and the return when it cannot be created
CreatePlaylist ==
    /\ op = "create_catalog_playlist"
    /\ pc = "createPlaylist"
    /\ \E http \in HttpOutcomes :
         IF CreatePlaylistSucceeds(http)
         THEN /\ pc' = "addToPlaylist"
              /\ result' = result
              /\ fi' = 1
              /\ ti' = 1
         ELSE /\ pc' = "done"
              /\ result' = FailureWithData(CreatePlaylistMessage(http),
                                           notFoundTracks)
              /\ UNCHANGED <<fi, ti>>
    /\ playlistCreates' = playlistCreates + 1
    /\ clientCalled' = TRUE
    /\ UNCHANGED <<configVars, pairVars, oauthVars, callVars, authVars,
                   settleDelays, sinceSearch, lastCall, bestMatch, i,
                   searchResults, foundTracks, notFoundTracks, failedTracks,
                   addedCount, libraryIds, failedToMap, searchVars,
                   libraryAdded, bulkAdd, scriptCalls, scriptIds, succeeded,
                   onlyNoTracks>>

\* the CatalogTrack that step 4 builds from an entry of foundTracks
TrackOfFound(f) ==
    [id |-> f.id, name |-> f.name, artistName |-> f.artist, albumName |-> <<>>]

\* variant of ScriptAdded that takes every returned text for a success
ScriptAddedAnyText(out) == out.kind = "return"

\* the test of a script result
ScriptAdded(out) == out.kind = "return" /\ ~startsWith(out.text, ErrorPrefix)

\* step 4, one pass of the loop over searchTerms: the script is run for the
\* term; a result without the Error prefix counts the track and leaves the
\* loop; after the last term the track goes to failedTracks
ExecuteAppleScript ==
    /\ op = "create_catalog_playlist"
    /\ pc = "addToPlaylist"
    /\ fi <= Len(foundTracks)
    /\ \E out \in ScriptOutcomes :
         LET f == foundTracks[fi]
             searchTerms == getLibrarySearchTerms(TrackOfFound(f))
             sent == Append(IF ti = 1 THEN <<>> ELSE scriptCalls,
                            [id |-> f.id, term |-> searchTerms[ti]])
             noTracks == /\ (ti = 1 \/ onlyNoTracks)
                         /\ out.kind = "return"
                         /\ startsWith(out.text, NoTracksPrefix)
         IN  /\ scriptCalls' = sent
             /\ scriptIds' = scriptIds \cup {f.id}
             /\ onlyNoTracks' = noTracks
             /\ succeeded' = IF out.kind = "return"
                                /\ ~startsWith(out.text, ErrorPrefix)
                             THEN succeeded \cup {f.req}
                             ELSE succeeded
             /\ IF ScriptAdded(out)
                THEN /\ addedCount' = addedCount + 1
                     /\ failedTracks' = failedTracks
                     /\ fi' = fi + 1
                     /\ ti' = 1
                ELSE IF ti < Len(searchTerms)
                THEN /\ ti' = ti + 1
                     /\ UNCHANGED <<addedCount, failedTracks, fi>>
                ELSE /\ failedTracks' =
                          Append(failedTracks,
                                 [track |-> f.requestedTrack,
                                  artist |-> f.requestedArtist,
                                  req |-> f.req])
                     /\ fi' = fi + 1
                     /\ ti' = 1
                     /\ addedCount' = addedCount
    /\ UNCHANGED <<configVars, pairVars, oauthVars, callVars, authVars,
                   traceVars, bestMatch, pc, result, i, searchResults,
                   foundTracks, notFoundTracks, libraryIds, failedToMap,
                   searchVars, libraryAdded, bulkAdd, playlistCreates>>

\* variant of TotalNotFound that leaves the failed tracks out
TotalNotFoundDropsFailed(notFound, failed) == notFound

\* const totalNotFound = [...notFoundTracks, ...failedTracks]
TotalNotFound(notFound, failed) == notFound \o failed

\* the return after step 4
ReturnResult ==
    /\ op = "create_catalog_playlist"
    /\ pc = "addToPlaylist"
    /\ fi > Len(foundTracks)
    /\ result' = [success |-> TRUE, error |-> "none", data |-> TRUE,
                  tracksAdded |-> addedCount,
                  tracksNotFound |-> TotalNotFound(notFoundTracks,
                                                   failedTracks)]
    /\ pc' = "done"
    /\ UNCHANGED <<configVars, pairVars, oauthVars, callVars, authVars,
                   traceVars, bestMatch, i, searchResults, foundTracks,
                   notFoundTracks, failedTracks, addedCount, libraryIds,
                   failedToMap, fi, ti, searchVars, syncVars>>

(***************************************************************************)
(* The second handleCreateCatalogPlaylist, after its step 2.               *)
(***************************************************************************)
\* what musicKit.getLibraryTrackByCatalogId(id) can give: the library track,
\* null, or an error
MapOutcomes == {"track", "null", "throw"}

\* step 3, one pass of the loop over foundTracks; an error leaves the loop
\* for the catch of the handler
MapLibraryId ==
    /\ op = "create_catalog_playlist_ids"
    /\ pc = "mapIds"
    /\ fi <= Len(foundTracks)
    /\ \E out \in MapOutcomes :
         LET f == foundTracks[fi]
         IN  IF out = "throw"
             THEN /\ result' = Failure("thrown error")
                  /\ pc' = "done"
                  /\ UNCHANGED <<libraryIds, failedToMap, fi>>
             ELSE /\ libraryIds' = IF out = "track"
                                   THEN Append(libraryIds, LibraryTrackOf(f.id))
                                   ELSE libraryIds
                  /\ failedToMap' = IF out = "track"
                                    THEN failedToMap
                                    ELSE Append(failedToMap,
                                                [track |-> f.requestedTrack,
                                                 artist |-> f.requestedArtist,
                                                 req |-> f.req])
                  /\ fi' = fi + 1
                  /\ UNCHANGED <<result, pc>>
    /\ clientCalled' = TRUE
    /\ UNCHANGED <<configVars, pairVars, oauthVars, callVars, authVars,
                   settleDelays, sinceSearch, lastCall, bestMatch, i,
                   searchResults, foundTracks, notFoundTracks, failedTracks,
                   addedCount, ti, searchVars, syncVars>>

\* the return when no ID was mapped, else step 4: the playlist is created
\* with the library IDs
CreatePlaylistWithIds ==
    /\ op = "create_catalog_playlist_ids"
    /\ pc = "mapIds"
    /\ fi > Len(foundTracks)
    /\ pc' = "done"
    /\ IF libraryIds = <<>>
       THEN /\ result' = FailureWithData("Library mapping failed",
                                         notFoundTracks \o failedToMap)
            /\ playlistCreates' = playlistCreates
       ELSE \E http \in HttpOutcomes :
              /\ playlistCreates' = playlistCreates + 1
              /\ IF CreatePlaylistSucceeds(http)
                 THEN result' = [success |-> TRUE, error |-> "none",
                                 data |-> TRUE,
                                 tracksAdded |-> Len(libraryIds),
                                 tracksNotFound |->
                                     notFoundTracks \o failedToMap]
                 ELSE result' = FailureWithData(CreatePlaylistMessage(http),
                                                notFoundTracks \o failedToMap)
    /\ clientCalled' = (clientCalled \/ libraryIds # <<>>)
    /\ UNCHANGED <<configVars, pairVars, oauthVars, callVars, authVars,
                   settleDelays, sinceSearch, lastCall, bestMatch, i,
                   searchResults, foundTracks, notFoundTracks, failedTracks,
                   addedCount, libraryIds, failedToMap, fi, ti, searchVars,
                   libraryAdded, bulkAdd, scriptCalls, scriptIds, succeeded,
                   onlyNoTracks>>

(***************************************************************************)
(* handleManagePlaylist: add_track with its catalog fallback               *)
(* (tryAddFromCatalog) and add_catalog_track (addCatalogTrackToPlaylist).  *)
(***************************************************************************)
Success == [success |-> TRUE, error |-> "none", data |-> TRUE,
            tracksAdded |-> 0, tracksNotFound |-> <<>>]

\* the end of handleManagePlaylist for the text `text` of the script
ScriptResult(text) ==
    IF startsWith(text, ErrorPrefix) THEN Failure("script error") ELSE Success

\* history: the class of a script outcome
ScriptOutcomeClass(out) ==
    IF out.kind = "throw" THEN "throw"
    ELSE IF startsWith(out.text, NoTracksPrefix) THEN "noTracks"
    ELSE IF startsWith(out.text, ErrorPrefix) THEN "error"
    ELSE "added"

\* variant of ShouldTryCatalog that goes to the catalog after any error text
ShouldTryCatalogAnyError(text) ==
    startsWith(text, ErrorPrefix) /\ useCatalogSearch

\* result.startsWith("Error: No tracks found") && input.useCatalogSearch
ShouldTryCatalog(text) ==
    startsWith(text, NoTracksPrefix) /\ useCatalogSearch

\* add_track: the script is run for the caller's search term; when it finds
\* no track and useCatalogSearch is set, tryAddFromCatalog takes over, and
\* gives null when MusicKit is not configured
AddTrack ==
    /\ op = "add_track"
    /\ pc = "start"
    /\ IF trackId = <<>>
       THEN /\ result' = Failure("Missing required parameters")
            /\ pc' = "done"
            /\ scriptCalls' = scriptCalls
            /\ scriptOut' = scriptOut
       ELSE \E out \in ScriptOutcomes :
              /\ scriptCalls' = <<[id |-> "none", term |-> trackId]>>
              /\ scriptOut' = ScriptOutcomeClass(out)
              /\ IF out.kind = "throw"
                 THEN /\ result' = Failure("AppleScript execution failed")
                      /\ pc' = "done"
                 ELSE IF ShouldTryCatalog(out.text) /\ isConfigured
                 THEN /\ pc' = "catalogSearch"
                      /\ result' = result
                 ELSE /\ result' = ScriptResult(out.text)
                      /\ pc' = "done"
    /\ UNCHANGED <<configVars, pairVars, oauthVars, bulkCalls, catalogAdd,
                   authVars, traceVars, i, searchResults, foundTracks,
                   notFoundTracks, failedTracks, addedCount, libraryIds,
                   failedToMap, fi, ti, bestMatch, searchVars, libraryAdded,
                   bulkAdd, playlistCreates, scriptIds, succeeded,
                   onlyNoTracks>>

\* tryAddFromCatalog: searchCatalog(searchTerm, 5) and the choice of tracks[0];
\* an error is caught, null is returned and handleManagePlaylist ends with
\* the error text of the script
TryAddFromCatalog ==
    /\ op = "add_track"
    /\ pc = "catalogSearch"
    /\ \E out \in SearchOutcomes :
         IF out.kind = "error"
         THEN /\ result' = ScriptResult(NoTracksText)
              /\ pc' = "done"
              /\ bestMatch' = bestMatch
         ELSE IF out.tracks = <<>>
         THEN /\ result' = Failure("Track not found")
              /\ pc' = "done"
              /\ bestMatch' = bestMatch
         ELSE /\ bestMatch' = out.tracks[1]
              /\ pc' = "addToLibrary"
              /\ result' = result
    /\ clientCalled' = TRUE
    /\ sinceSearch' = Searched(sinceSearch)
    /\ UNCHANGED <<configVars, pairVars, oauthVars, callVars, authVars,
                   settleDelays, lastCall, i, searchResults, foundTracks,
                   notFoundTracks, failedTracks, addedCount, libraryIds,
                   failedToMap, fi, ti, searchVars, syncVars>>

\* what the fetch of getTrackById(id) can give: a response with a status and
\* the data of its body, the track of that ID or nothing, or a rejection
TrackResponses(id) ==
    { [kind |-> "response", status |-> st, songs |-> <<>>, data |-> d] :
        st \in Statuses,
        d \in {<<>>} \cup {<<c>> : c \in {k \in Catalog : k.id = id}} }
      \cup {Rejected}

\* variant of getTrackById without the test of the status 404
getTrackByIdThrowsOn404(resp) ==
    IF resp.kind = "reject" \/ ~ok(resp.status)
    THEN [kind |-> "throw", track |-> Null]
    ELSE IF resp.data # <<>> THEN [kind |-> "track", track |-> resp.data[1]]
    ELSE [kind |-> "null", track |-> Null]

\* MusicKitClient.getTrackById after its token check: what the call gives for
\* the answer `resp` of its fetch
getTrackById(resp) ==
    IF resp.kind = "reject" THEN [kind |-> "throw", track |-> Null]
    ELSE IF ~ok(resp.status)
    THEN (IF resp.status = 404
          THEN [kind |-> "null", track |-> Null]
          ELSE [kind |-> "throw", track |-> Null])
    ELSE IF resp.data # <<>> THEN [kind |-> "track", track |-> resp.data[1]]
    ELSE [kind |-> "null", track |-> Null]

\* what a getTrackById(id) call can give its caller: the track of that ID,
\* null or an error
TrackOutcomes(id) == {getTrackById(resp) : resp \in TrackResponses(id)}

\* addCatalogTrackToPlaylist up to the library add
GetTrackById ==
    /\ op = "add_catalog_track"
    /\ pc = "start"
    /\ IF trackId = ""
       THEN /\ result' = Failure("Missing required parameters")
            /\ pc' = "done"
            /\ bestMatch' = bestMatch
       ELSE IF ~isConfigured
       THEN /\ result' = Failure("MusicKit not configured")
            /\ pc' = "done"
            /\ bestMatch' = bestMatch
       ELSE \E out \in TrackOutcomes(trackId) :
              IF out.kind = "throw"
              THEN /\ result' = Failure("Failed to add catalog track")
                   /\ pc' = "done"
                   /\ bestMatch' = bestMatch
              ELSE IF out.kind = "null"
              THEN /\ result' = Failure("Track not found")
                   /\ pc' = "done"
                   /\ bestMatch' = bestMatch
              ELSE /\ bestMatch' = out.track
                   /\ pc' = "addToLibrary"
                   /\ result' = result
    /\ clientCalled' = (clientCalled \/ (trackId # "" /\ isConfigured))
    /\ UNCHANGED <<configVars, pairVars, oauthVars, callVars, authVars,
                   settleDelays, sinceSearch, lastCall, i, searchResults,
                   foundTracks, notFoundTracks, failedTracks, addedCount,
                   libraryIds, failedToMap, fi, ti, searchVars, syncVars>>

\* the ID the library add is called with: bestMatch.id in tryAddFromCatalog,
\* catalogTrackId in addCatalogTrackToPlaylist
LibraryAddId == IF op = "add_track" THEN bestMatch.id ELSE trackId

\* musicKit.addTrackToLibrary and the return when it fails
AddTrackToLibrary ==
    /\ op \in ManageOps
    /\ pc = "addToLibrary"
    /\ \E http \in HttpOutcomes :
         /\ IF LibraryAddSucceeds(<<LibraryAddId>>, http)
            THEN /\ pc' = "settle"
                 /\ result' = result
            ELSE /\ pc' = "done"
                 /\ result' = Failure(LibraryAddMessage(<<LibraryAddId>>,
                                                        http))
         /\ libraryAdded' = IF RemoteAccepts(http)
                            THEN libraryAdded \cup {LibraryAddId}
                            ELSE libraryAdded
    /\ clientCalled' = TRUE
    /\ UNCHANGED <<configVars, pairVars, oauthVars, callVars, authVars,
                   settleDelays, sinceSearch, lastCall, i, searchResults,
                   foundTracks, notFoundTracks, failedTracks, addedCount,
                   libraryIds, failedToMap, fi, ti, bestMatch, searchVars,
                   bulkAdd, playlistCreates, scriptCalls, scriptIds,
                   succeeded, onlyNoTracks>>

\* await new Promise((resolve) => setTimeout(resolve, 2000))
SyncDelay ==
    /\ op \in ManageOps
    /\ pc = "settle"
    /\ pc' = "addToPlaylist"
    /\ ti' = 1
    /\ settleDelays' = settleDelays + 1
    /\ UNCHANGED <<configVars, pairVars, oauthVars, callVars, authVars,
                   clientCalled, sinceSearch, lastCall, result, i,
                   searchResults, foundTracks, notFoundTracks, failedTracks,
                   addedCount, libraryIds, failedToMap, fi, bestMatch,
                   searchVars, syncVars>>

\* one pass of the loop over getLibrarySearchTerms(track): the first result
\* without the Error prefix ends the call with success; after the last term
\* the call ends with the failure that names the sync delay
AddToPlaylist ==
    /\ op \in ManageOps
    /\ pc = "addToPlaylist"
    /\ \E out \in ScriptOutcomes :
         LET searchTerms == getLibrarySearchTerms(bestMatch)
         IN  /\ scriptCalls' = Append(scriptCalls, [id |-> bestMatch.id,
                                                    term |-> searchTerms[ti]])
             /\ scriptIds' = scriptIds \cup {bestMatch.id}
             /\ succeeded' = IF ScriptOutcomeClass(out) = "added"
                             THEN succeeded \cup {1}
                             ELSE succeeded
             /\ IF ScriptAdded(out)
                THEN /\ result' = Success
                     /\ pc' = "done"
                     /\ ti' = ti
                ELSE IF ti < Len(searchTerms)
                THEN /\ ti' = ti + 1
                     /\ UNCHANGED <<result, pc>>
                ELSE /\ result' = Failure(IF op = "add_track"
                                          THEN "Sync delay"
                                          ELSE "Playlist add failed")
                     /\ pc' = "done"
                     /\ ti' = ti
    /\ UNCHANGED <<configVars, pairVars, oauthVars, callVars, authVars,
                   traceVars, i, searchResults, foundTracks, notFoundTracks,
                   failedTracks, addedCount, libraryIds, failedToMap, fi,
                   bestMatch, searchVars, libraryAdded, bulkAdd,
                   playlistCreates, onlyNoTracks>>

(***************************************************************************)
(* handleCatalogSearch, handleDiscoverSearchCatalog, handleAddCatalogTrack. *)
(***************************************************************************)
\* variant of ShouldAdd that adds whatever the input says
ShouldAddAlways(addToLibrary) == TRUE

\* input.addToLibrary !== false
ShouldAdd(addToLibrary) == addToLibrary # "false"

\* the outputs of the two search tools
SearchFailure(error, catalogAvailable) ==
    [success |-> FALSE, error |-> error, data |-> FALSE, tracksAdded |-> 0,
     tracksNotFound |-> <<>>, catalogAvailable |-> catalogAvailable]

SearchSuccess(found) ==
    [success |-> TRUE, error |-> "none", data |-> TRUE, tracksAdded |-> 0,
     tracksNotFound |-> <<>>, catalogAvailable |-> TRUE, found |-> found]

\* the whole handler: the isConfigured() gate, then one searchCatalog call,
\* the error of which is caught and returned as the error of the output
handleCatalogSearch ==
    /\ op = "search_apple_music_catalog"
    /\ pc = "start"
    /\ IF ~isConfigured
       THEN /\ result' = SearchFailure("MusicKit not configured", FALSE)
            /\ UNCHANGED <<clientCalled, sinceSearch>>
       ELSE /\ \E out \in SearchOutcomes :
                 result' = IF out.kind = "error"
                           THEN SearchFailure("Apple Music API error", TRUE)
                           ELSE SearchSuccess(out.tracks)
            /\ clientCalled' = TRUE
            /\ sinceSearch' = Searched(sinceSearch)
    /\ pc' = "done"
    /\ UNCHANGED <<configVars, pairVars, oauthVars, callVars, authVars,
                   bestMatch, i, searchResults, foundTracks, notFoundTracks,
                   failedTracks, addedCount, libraryIds, failedToMap, fi, ti,
                   searchVars, syncVars, settleDelays, lastCall>>

\* the same steps in the discovery tool
handleDiscoverSearchCatalog ==
    /\ op = "discover_search_catalog"
    /\ pc = "start"
    /\ IF ~isConfigured
       THEN /\ result' = SearchFailure("MusicKit not configured", FALSE)
            /\ UNCHANGED <<clientCalled, sinceSearch>>
       ELSE /\ \E out \in SearchOutcomes :
                 result' = IF out.kind = "error"
                           THEN SearchFailure("Apple Music API error", TRUE)
                           ELSE SearchSuccess(out.tracks)
            /\ clientCalled' = TRUE
            /\ sinceSearch' = Searched(sinceSearch)
    /\ pc' = "done"
    /\ UNCHANGED <<configVars, pairVars, oauthVars, callVars, authVars,
                   bestMatch, i, searchResults, foundTracks, notFoundTracks,
                   failedTracks, addedCount, libraryIds, failedToMap, fi, ti,
                   searchVars, syncVars, settleDelays, lastCall>>

\* the whole handler: the isConfigured() gate, getTrackById, and unless
\* input.addToLibrary is false addTrackToLibrary; an error of getTrackById
\* is caught and returned as the error of the output
handleAddCatalogTrack ==
    /\ op = "add_catalog_track_to_library"
    /\ pc = "start"
    /\ \E addToLibrary \in {"true", "false", "undefined"} :
         IF ~isConfigured
         THEN /\ result' = Failure("MusicKit not configured")
              /\ catalogAdd' = [NoAdd EXCEPT !.addToLibrary = addToLibrary]
              /\ UNCHANGED <<clientCalled, libraryAdded>>
         ELSE /\ clientCalled' = TRUE
              /\ \E out \in TrackOutcomes(trackId), http \in HttpOutcomes :
                   LET seen == [NoAdd EXCEPT !.got = out.kind,
                                             !.addToLibrary = addToLibrary]
                       success == LibraryAddSucceeds(<<trackId>>, http)
                   IN  IF out.kind = "throw"
                       THEN /\ result' = Failure("Apple Music API error")
                            /\ catalogAdd' = seen
                            /\ libraryAdded' = libraryAdded
                       ELSE IF out.kind = "null"
                       THEN /\ result' = Failure("Track not found")
                            /\ catalogAdd' = seen
                            /\ libraryAdded' = libraryAdded
                       ELSE IF ShouldAdd(addToLibrary)
                       THEN /\ result' =
                                 IF success
                                 THEN Success
                                 ELSE Failure(LibraryAddMessage(<<trackId>>,
                                                                http))
                            /\ catalogAdd' =
                                 [seen EXCEPT !.called = TRUE,
                                              !.callSucceeded = success,
                                              !.addedToLibrary = success]
                            /\ libraryAdded' = IF RemoteAccepts(http)
                                               THEN libraryAdded \cup {trackId}
                                               ELSE libraryAdded
                       ELSE /\ result' = Success
                            /\ catalogAdd' = seen
                            /\ libraryAdded' = libraryAdded
    /\ pc' = "done"
    /\ UNCHANGED <<configVars, pairVars, oauthVars, bulkCalls, scriptOut,
                   authVars, bestMatch, i, searchResults, foundTracks,
                   notFoundTracks, failedTracks, addedCount, libraryIds,
                   failedToMap, fi, ti, searchVars, bulkAdd, playlistCreates,
                   scriptCalls, scriptIds, succeeded, onlyNoTracks,
                   settleDelays, sinceSearch, lastCall>>

Next ==
    \/ CheckConfigured
    \/ CallSmartSearch
    \/ SearchCatalog
    \/ ReceiveSearchResult
    \/ ExtractFound
    \/ AddTracksToLibrary
    \/ SettleDelay
    \/ CreatePlaylist
    \/ ExecuteAppleScript
    \/ ReturnResult
    \/ MapLibraryId
    \/ CreatePlaylistWithIds
    \/ AddTrack
    \/ TryAddFromCatalog
    \/ GetTrackById
    \/ AddTrackToLibrary
    \/ SyncDelay
    \/ AddToPlaylist
    \/ handleCatalogSearch
    \/ handleDiscoverSearchCatalog
    \/ handleAddCatalogTrack

Spec == Init /\ [][Next]_vars

(***************************************************************************)
(* handleCreateCatalogPlaylist alone, with fairness.  Every external call  *)
(* (a fetch, the script, a timer) returns or fails, and the event loop     *)
(* resumes the handler that awaits it: a handler that can take a step      *)
(* takes one.                                                              *)
(***************************************************************************)
CreateInit ==
    /\ Init
    /\ op \in CreateOps
    /\ Len(tracks) <= MaxFairBatch

CreateNext ==
    \/ CheckConfigured
    \/ CallSmartSearch
    \/ SearchCatalog
    \/ ReceiveSearchResult
    \/ ExtractFound
    \/ AddTracksToLibrary
    \/ SettleDelay
    \/ CreatePlaylist
    \/ ExecuteAppleScript
    \/ ReturnResult
    \/ MapLibraryId
    \/ CreatePlaylistWithIds

FairSpec == CreateInit /\ [][CreateNext]_vars /\ WF_vars(CreateNext)

(***************************************************************************)
(* handleCreateCatalogPlaylist for a batch of one request whose title is   *)
(* the title of no track of the catalog.                                   *)
(***************************************************************************)
\* a request for a title the catalog does not have, by an artist it has,
\* and a request the catalog has
TitleRequests ==
    { [track |-> Bob, artist |-> Abe],
      [track |-> toLowerCase(HeyJoe), artist |-> toLowerCase(Abe)] }

TitleInit ==
    /\ developerToken \in BOOLEAN
    /\ userToken \in BOOLEAN
    /\ op \in CreateOps
    /\ tracks \in {<<r>> : r \in TitleRequests}
    /\ trackId = <<>>
    /\ useCatalogSearch = FALSE
    /\ pair = <<>>
    /\ FromEnv
    /\ Started

TitleSpec == TitleInit /\ [][CreateNext]_vars

(***************************************************************************)
(* Two handleCreateCatalogPlaylist calls that the event loop interleaves.  *)
(* Everything the handler works with (searchResults, foundTracks,          *)
(* notFoundTracks, failedTracks, addedCount, the MusicKitClient it         *)
(* creates) is declared inside the function: each call has a frame of its  *)
(* own.  The tokens come from process.env, which no handler writes.  A     *)
(* step is the code that runs from one await to the next;                  *)
(* smartSearchTrack keeps no state between calls and is taken as one       *)
(* await, and the sleeps are part of the step before them.  The field log  *)
(* of a frame is history: what each call the invocation made gave back.    *)
(***************************************************************************)
Invocations == {1, 2}

\* the requests the two callers put in their batches
PairRequests ==
    { [track |-> toLowerCase(HeyJoe), artist |-> toLowerCase(Abe)],
      [track |-> Joe, artist |-> Bob],
      [track |-> Undefined, artist |-> Abe] }

PairBatches ==
    { b \in SeqsUpTo(PairRequests, MaxPairBatch) :
        \A x, y \in DOMAIN b : x # y => b[x] # b[y] }

\* the locals of a call that has just started
Frame(input) ==
    [tracks |-> input, pc |-> "start", i |-> 0, searchResults |-> <<>>,
     foundTracks |-> <<>>, notFoundTracks |-> <<>>, failedTracks |-> <<>>,
     addedCount |-> 0, fi |-> 0, ti |-> 0, result |-> Pending, log |-> <<>>]

PairInit ==
    /\ developerToken \in BOOLEAN
    /\ userToken \in BOOLEAN
    /\ op = "pair"
    /\ tracks = <<>>
    /\ trackId = <<>>
    /\ useCatalogSearch = FALSE
    /\ pair \in [Invocations -> {Frame(b) : b \in PairBatches}]
    /\ FromEnv
    /\ Started

\* what smartSearchTrack(track, artist) can give: an error when the track is
\* not a string, else null or a track of the catalog whose score reaches the
\* threshold
SmartSearchOutcomes(req) ==
    IF req.track = Undefined
    THEN {[call |-> "smartSearchTrack", kind |-> "throw", track |-> Null]}
    ELSE {[call |-> "smartSearchTrack", kind |-> "return", track |-> t] :
            t \in {Null} \cup
                  {k \in Catalog :
                     Accepts(scoreTrackMatch(k, req.track, req.artist))}}

\* variant of PushResult with one searchResults array for all the calls
PushResultShared(frames, p, r) ==
    [q \in DOMAIN frames |->
        [frames[q] EXCEPT !.searchResults = Append(@, r)]]

\* searchResults.push(result), on the array of the call
PushResult(frames, p, r) ==
    [frames EXCEPT ![p].searchResults = Append(@, r)]

PairCheckConfigured(p) ==
    /\ pair[p].pc = "start"
    /\ pair' = [pair EXCEPT ![p] =
                  IF ~isConfigured
                  THEN [@ EXCEPT !.result = Failure("MusicKit not configured"),
                                 !.pc = "done"]
                  ELSE [@ EXCEPT !.pc = "resolve", !.i = 1]]

\* one pass of the step-1 loop
PairSmartSearch(p) ==
    /\ pair[p].pc = "resolve"
    /\ pair[p].i <= Len(pair[p].tracks)
    /\ \E out \in SmartSearchOutcomes(pair[p].tracks[pair[p].i]) :
         pair' = [PushResult(pair, p, out.track) EXCEPT
                    ![p].i = @ + 1,
                    ![p].log = Append(@, out)]

PairExtractFound(p) ==
    /\ pair[p].pc = "resolve"
    /\ pair[p].i > Len(pair[p].tracks)
    /\ LET found == FoundFrom(pair[p].searchResults, pair[p].tracks, 1)
           notFound == NotFoundFrom(pair[p].searchResults, pair[p].tracks, 1)
       IN  pair' = [pair EXCEPT ![p] =
                      IF found = <<>>
                      THEN [@ EXCEPT
                              !.foundTracks = found,
                              !.notFoundTracks = notFound,
                              !.result = FailureWithData("No tracks found",
                                                         notFound),
                              !.pc = "done"]
                      ELSE [@ EXCEPT
                              !.foundTracks = found,
                              !.notFoundTracks = notFound,
                              !.pc = "addLibrary"]]

\* step 2 and the sleep of 2000 ms
PairAddTracksToLibrary(p) ==
    /\ pair[p].pc = "addLibrary"
    /\ \E http \in HttpOutcomes :
         LET trackIds == IdsOf(pair[p].foundTracks)
             message == LibraryAddMessage(trackIds, http)
             entry == [call |-> "addTracksToLibrary", kind |-> message,
                       track |-> Null]
         IN  pair' = [pair EXCEPT ![p] =
                        IF LibraryAddSucceeds(trackIds, http)
                        THEN [@ EXCEPT !.pc = "createPlaylist",
                                       !.log = Append(@, entry)]
                        ELSE [@ EXCEPT
                                !.pc = "done",
                                !.result = FailureWithData(
                                               message,
                                               pair[p].notFoundTracks),
                                !.log = Append(@, entry)]]

\* step 3
PairCreatePlaylist(p) ==
    /\ pair[p].pc = "createPlaylist"
    /\ \E http \in HttpOutcomes :
         LET message == CreatePlaylistMessage(http)
             entry == [call |-> "createPlaylistWithTracks",
                       kind |-> message, track |-> Null]
         IN  pair' = [pair EXCEPT ![p] =
                        IF CreatePlaylistSucceeds(http)
                        THEN [@ EXCEPT !.pc = "addToPlaylist",
                                       !.fi = 1, !.ti = 1,
                                       !.log = Append(@, entry)]
                        ELSE [@ EXCEPT
                                !.pc = "done",
                                !.result = FailureWithData(
                                               message,
                                               pair[p].notFoundTracks),
                                !.log = Append(@, entry)]]

\* step 4, one pass of the loop over searchTerms
PairExecuteAppleScript(p) ==
    /\ pair[p].pc = "addToPlaylist"
    /\ pair[p].fi <= Len(pair[p].foundTracks)
    /\ \E out \in ScriptOutcomes :
         LET f == pair[p].foundTracks[pair[p].fi]
             searchTerms == getLibrarySearchTerms(TrackOfFound(f))
             entry == [call |-> "executeAppleScript",
                       kind |-> IF ScriptAdded(out) THEN "added" ELSE "error",
                       track |-> Null]
         IN  pair' = [pair EXCEPT ![p] =
                        IF ScriptAdded(out)
                        THEN [@ EXCEPT !.addedCount = @ + 1,
                                       !.fi = @ + 1, !.ti = 1,
                                       !.log = Append(@, entry)]
                        ELSE IF pair[p].ti < Len(searchTerms)
                        THEN [@ EXCEPT !.ti = @ + 1,
                                       !.log = Append(@, entry)]
                        ELSE [@ EXCEPT
                                !.failedTracks =
                                    Append(@, [track |-> f.requestedTrack,
                                               artist |-> f.requestedArtist,
                                               req |-> f.req]),
                                !.fi = @ + 1, !.ti = 1,
                                !.log = Append(@, entry)]]

PairReturnResult(p) ==
    /\ pair[p].pc = "addToPlaylist"
    /\ pair[p].fi > Len(pair[p].foundTracks)
    /\ pair' = [pair EXCEPT ![p] =
                  [@ EXCEPT
                     !.result =
                        [success |-> TRUE, error |-> "none", data |-> TRUE,
                         tracksAdded |-> pair[p].addedCount,
                         tracksNotFound |->
                            TotalNotFound(pair[p].notFoundTracks,
                                          pair[p].failedTracks)],
                     !.pc = "done"]]

PairNext ==
    /\ op = "pair"
    /\ \E p \in Invocations :
         \/ PairCheckConfigured(p)
         \/ PairSmartSearch(p)
         \/ PairExtractFound(p)
         \/ PairAddTracksToLibrary(p)
         \/ PairCreatePlaylist(p)
         \/ PairExecuteAppleScript(p)
         \/ PairReturnResult(p)
    /\ UNCHANGED <<configVars, handlerVars, searchVars, syncVars, traceVars,
                   callVars, authVars, oauthVars>>

PairSpec == PairInit /\ [][PairNext]_vars

(***************************************************************************)
(* OAuthHandler.authorize: the promise, the callback server and the timer  *)
(* of five minutes.  server.close() stops the server from accepting        *)
(* connections and keeps the open ones: a request on an open connection    *)
(* can still reach handleCallback after it.  Nothing clears the timer.     *)
(***************************************************************************)
\* the requests the callback server can get: url.pathname, and for /callback
\* whether the parameter error is set and the parameter token
CallbackRequests ==
    [path : {"/callback"}, error : BOOLEAN,
     token : {Undefined, <<>>, TokenA, TokenB}]
      \cup [path : {"/authorize", "/other"}, error : {FALSE},
            token : {Undefined}]

OAuthInit ==
    /\ developerToken = TRUE
    /\ userToken = FALSE
    /\ op = "authorize"
    /\ tracks = <<>>
    /\ trackId = <<>>
    /\ useCatalogSearch = FALSE
    /\ pair = <<>>
    /\ now = 1
    /\ envUserToken = Undefined
    /\ envExpiresAt = 0
    /\ tokenStore \in {NoTokens, Stored(TokenB, now)}
    /\ Started

\* variant of Settle that lets a later resolve or reject replace the outcome
SettleOverwrites(p, outcome) == outcome

\* resolve(value) and reject(error) of a promise: the first call settles it,
\* the later ones do nothing
Settle(p, outcome) == IF p.state = "pending" THEN outcome ELSE p

\* what resolve(userToken) and reject(new Error(...)) settle the promise with
Outcome(state, token, error) ==
    [state |-> state, token |-> token, error |-> error]

\* OAuthHandler.saveTokens: what the file holds after writeFileSync, which
\* writes it, fails before it writes, or fails after it truncated the file
saveTokens(store, tokens, write) ==
    IF write = "ok" THEN tokens
    ELSE IF write = "failed" THEN store
    ELSE NoTokens

\* authorize(): the promise is created, the server listens, the timer is set
authorize ==
    /\ op = "authorize"
    /\ promise.state = "none"
    /\ promise' = [state |-> "pending", token |-> Undefined, error |-> "none"]
    /\ server' = "listening"
    /\ timer' = "armed"
    /\ UNCHANGED <<configVars, pairVars, callVars, authVars, handlerVars,
                   searchVars, syncVars, traceVars, handled, lastRequest>>

\* handleCallback(req, res, resolve, reject, server)
handleCallback ==
    /\ op = "authorize"
    /\ server # "none"
    /\ handled < MaxCallbacks
    /\ \E req \in CallbackRequests, write \in {"ok", "failed", "truncated"} :
         /\ lastRequest' = req
         /\ IF req.path # "/callback"
            THEN UNCHANGED <<promise, server, tokenStore>>
            ELSE IF req.error
            THEN /\ promise' = Settle(promise,
                                      Outcome("rejected", Undefined,
                                              "Authorization failed"))
                 /\ server' = "closed"
                 /\ tokenStore' = tokenStore
            ELSE IF ~Truthy(req.token)
            THEN /\ promise' = Settle(promise,
                                      Outcome("rejected", Undefined,
                                              "No user token received"))
                 /\ server' = "closed"
                 /\ tokenStore' = tokenStore
            ELSE /\ tokenStore' =
                      saveTokens(tokenStore,
                                 Stored(req.token, now + Lifetime), write)
                 /\ server' = "closed"
                 /\ promise' = Settle(promise,
                                      IF write = "ok"
                                      THEN Outcome("resolved", req.token, "none")
                                      ELSE Outcome("rejected", Undefined,
                                                   "write failed"))
    /\ handled' = handled + 1
    /\ UNCHANGED <<configVars, pairVars, callVars, envUserToken, envExpiresAt,
                   now, handlerVars, searchVars, syncVars, traceVars, timer>>

\* the callback of setTimeout(..., 300000)
Timeout ==
    /\ op = "authorize"
    /\ timer = "armed"
    /\ timer' = "fired"
    /\ server' = "closed"
    /\ promise' = Settle(promise, Outcome("rejected", Undefined,
                                          "Authorization timeout"))
    /\ UNCHANGED <<configVars, pairVars, callVars, authVars, handlerVars,
                   searchVars, syncVars, traceVars, handled, lastRequest>>

OAuthNext ==
    \/ authorize
    \/ handleCallback
    \/ Timeout

\* the event loop runs authorize() once it is called, and the timer fires
OAuthSpec ==
    OAuthInit /\ [][OAuthNext]_vars /\ WF_vars(authorize) /\ WF_vars(Timeout)

(***************************************************************************)
(* The methods of MusicKitClient, called on a client that holds any        *)
(* combination of the two tokens.  The client keeps nothing but its tokens *)
(* from one call to the next, so a behaviour is one call.                  *)
(***************************************************************************)
CatalogIds == {c.id : c \in Catalog}

\* variant of LibraryRequestSent without the test of the user token
LibraryRequestSentNoUserCheck(trackIds) == developerToken /\ trackIds # <<>>

\* addTracksToLibrary(trackIds) and addTrackToLibrary(id): whether the call
\* reaches its fetch, past the two token checks and the return for an empty
\* list
LibraryRequestSent(trackIds) ==
    developerToken /\ userToken /\ trackIds # <<>>

\* createPlaylistWithTracks: whether the call reaches its fetch
PlaylistRequestSent == developerToken /\ userToken

ClientInit ==
    /\ developerToken \in BOOLEAN
    /\ userToken \in BOOLEAN
    /\ op = "client"
    /\ lastCall = NoCall
    /\ tracks = <<>>
    /\ trackId = <<>>
    /\ useCatalogSearch = FALSE
    /\ pair = <<>>
    /\ FromEnv
    /\ Started

\* searchCatalog(term, limit)
CallSearchCatalog ==
    /\ op = "client"
    /\ lastCall = NoCall
    /\ IF ~developerToken
       THEN lastCall' = [fn |-> "searchCatalog", sent |-> FALSE,
                         resp |-> Rejected,
                         ret |-> [kind |-> "error", tracks |-> <<>>]]
       ELSE \E resp \in SearchResponses :
              lastCall' = [fn |-> "searchCatalog", sent |-> TRUE,
                           resp |-> resp, ret |-> searchCatalog(resp)]
    /\ UNCHANGED <<configVars, pairVars, oauthVars, callVars, authVars,
                   handlerVars, searchVars, syncVars, clientCalled,
                   settleDelays, sinceSearch>>

\* getTrackById(trackId)
CallGetTrackById ==
    /\ op = "client"
    /\ lastCall = NoCall
    /\ \E id \in {"k1", "k9"} :
         IF ~developerToken
         THEN lastCall' = [fn |-> "getTrackById", id |-> id, sent |-> FALSE,
                           resp |-> Rejected,
                           ret |-> [kind |-> "throw", track |-> Null]]
         ELSE \E resp \in TrackResponses(id) :
                lastCall' = [fn |-> "getTrackById", id |-> id, sent |-> TRUE,
                             resp |-> resp, ret |-> getTrackById(resp)]
    /\ UNCHANGED <<configVars, pairVars, oauthVars, callVars, authVars,
                   handlerVars, searchVars, syncVars, clientCalled,
                   settleDelays, sinceSearch>>

\* what a library call leaves: whether it sent its request, the answer of
\* the remote to a request that was sent, and the { success, message } it
\* returned
LibraryCall(fn, trackIds, sent, http, success, message) ==
    [fn |-> fn, ids |-> trackIds, sent |-> sent,
     http |-> IF sent THEN http ELSE "none",
     ret |-> [success |-> success, message |-> message]]

\* addTrackToLibrary(trackId)
CallAddTrackToLibrary ==
    /\ op = "client"
    /\ lastCall = NoCall
    /\ \E id \in CatalogIds, http \in HttpOutcomes :
         lastCall' = LibraryCall("addTrackToLibrary", <<id>>,
                                 LibraryRequestSent(<<id>>), http,
                                 LibraryAddSucceeds(<<id>>, http),
                                 LibraryAddMessage(<<id>>, http))
    /\ UNCHANGED <<configVars, pairVars, oauthVars, callVars, authVars,
                   handlerVars, searchVars, syncVars, clientCalled,
                   settleDelays, sinceSearch>>

\* addTracksToLibrary(trackIds)
CallAddTracksToLibrary ==
    /\ op = "client"
    /\ lastCall = NoCall
    /\ \E ids \in SeqsUpTo(CatalogIds, MaxResults), http \in HttpOutcomes :
         lastCall' = LibraryCall("addTracksToLibrary", ids,
                                 LibraryRequestSent(ids), http,
                                 LibraryAddSucceeds(ids, http),
                                 LibraryAddMessage(ids, http))
    /\ UNCHANGED <<configVars, pairVars, oauthVars, callVars, authVars,
                   handlerVars, searchVars, syncVars, clientCalled,
                   settleDelays, sinceSearch>>

\* createPlaylistWithTracks(name, trackIds, description)
CallCreatePlaylistWithTracks ==
    /\ op = "client"
    /\ lastCall = NoCall
    /\ \E ids \in SeqsUpTo(CatalogIds, MaxResults), http \in HttpOutcomes :
         lastCall' = LibraryCall("createPlaylistWithTracks", ids,
                                 PlaylistRequestSent, http,
                                 CreatePlaylistSucceeds(http),
                                 CreatePlaylistMessage(http))
    /\ UNCHANGED <<configVars, pairVars, oauthVars, callVars, authVars,
                   handlerVars, searchVars, syncVars, clientCalled,
                   settleDelays, sinceSearch>>

\* the catalog tracks scoreTrackMatch is applied to: those of the catalog,
\* one without a name and an artist, and one with two artists
ScoreCandidates ==
    Catalog \cup
    { [id |-> "k3", name |-> <<>>, artistName |-> <<>>, albumName |-> <<>>],
      [id |-> "k4", name |-> HeyJoe, artistName |-> Spaced(Abe, Bob),
       albumName |-> <<>>] }

\* the target tracks: a string, and never undefined
TargetTracks ==
    { HeyJoe, toLowerCase(HeyJoe), HeyJoeAccented, Spaced(Joe, <<"H","e","y">>),
      Joe \o <<"y">>, Bob, <<"T","h","e"," ","A","n">>, <<>> }

\* the target artists: a string or undefined
TargetArtists ==
    { Undefined, <<>>, Abe, toLowerCase(Abe), Bob, Spaced(Bob, Abe) }

\* scoreTrackMatch(track, targetTrack, targetArtist)
ApplyScoreTrackMatch ==
    /\ op = "client"
    /\ lastCall = NoCall
    /\ \E track \in ScoreCandidates, targetTrack \in TargetTracks,
          targetArtist \in TargetArtists :
         lastCall' = [fn |-> "scoreTrackMatch", track |-> track,
                      targetTrack |-> targetTrack,
                      targetArtist |-> targetArtist,
                      ret |-> scoreTrackMatch(track, targetTrack,
                                              targetArtist)]
    /\ UNCHANGED <<configVars, pairVars, oauthVars, callVars, authVars,
                   handlerVars, searchVars, syncVars, clientCalled,
                   settleDelays, sinceSearch>>

\* the code points of the strings normalizeString is applied to
NormChars == {"a", " ", "e'", "'", "cgj", "ta", "sh"}

\* normalizeString(str)
ApplyNormalizeString ==
    /\ op = "client"
    /\ lastCall = NoCall
    /\ \E str \in SeqsUpTo(NormChars, MaxLen) :
         lastCall' = [fn |-> "normalizeString", str |-> str,
                      ret |-> normalizeString(str)]
    /\ UNCHANGED <<configVars, pairVars, oauthVars, callVars, authVars,
                   handlerVars, searchVars, syncVars, clientCalled,
                   settleDelays, sinceSearch>>

ClientNext ==
    \/ CallSearchCatalog
    \/ CallGetTrackById
    \/ CallAddTrackToLibrary
    \/ CallAddTracksToLibrary
    \/ CallCreatePlaylistWithTracks
    \/ ApplyScoreTrackMatch
    \/ ApplyNormalizeString

ClientSpec == ClientInit /\ [][ClientNext]_vars

(***************************************************************************)
(* The library calls of a MusicKitClient built by createMusicKitClient()   *)
(* from what the environment and the token file hold at that time.         *)
(***************************************************************************)
TokenInit ==
    /\ developerToken \in BOOLEAN
    /\ now = 1
    /\ envUserToken \in {Undefined, <<>>, TokenA}
    /\ envExpiresAt \in IF Truthy(envUserToken) THEN 0..MaxTime ELSE {0}
    /\ tokenStore \in {NoTokens} \cup
                       {Stored(t, e) : t \in {<<>>, TokenB}, e \in 0..MaxTime}
    /\ userToken = Truthy(constructorUserToken(developerToken, envUserToken,
                                                tokenStore, now))
    /\ op = "client"
    /\ tracks = <<>>
    /\ trackId = <<>>
    /\ useCatalogSearch = FALSE
    /\ pair = <<>>
    /\ Started

TokenNext ==
    \/ CallAddTrackToLibrary
    \/ CallAddTracksToLibrary
    \/ CallCreatePlaylistWithTracks

TokenSpec == TokenInit /\ [][TokenNext]_vars

(***************************************************************************)
(* Properties.  The requests of a batch are named by their position in     *)
(* input.tracks, the field req of the entries of the lists.                *)
(***************************************************************************)
Reqs(list) == {list[k].req : k \in DOMAIN list}

ReqSeq(list) == [k \in DOMAIN list |-> list[k].req]

AllReqs == 1..Len(tracks)

\* a call of the script-based handleCreateCatalogPlaylist has returned
Returned == op = "create_catalog_playlist" /\ pc = "done"

\* the three outcome sets are pairwise disjoint, cover the batch, and are
\* what the handler counts and lists
Partition ==
    /\ succeeded \cup Reqs(notFoundTracks) \cup Reqs(failedTracks) = AllReqs
    /\ succeeded \cap Reqs(notFoundTracks) = {}
    /\ succeeded \cap Reqs(failedTracks) = {}
    /\ Reqs(notFoundTracks) \cap Reqs(failedTracks) = {}
    /\ addedCount = Cardinality(succeeded)
    /\ Len(notFoundTracks) = Cardinality(Reqs(notFoundTracks))
    /\ Len(failedTracks) = Cardinality(Reqs(failedTracks))
    /\ addedCount + Len(notFoundTracks) + Len(failedTracks) = Len(tracks)

\* C1 as the specification states it: every call of
\* handleCreateCatalogPlaylist on a batch of N requests, with MusicKit
\* configured, ends with each request in exactly one of added,
\* not-found-in-catalog and resolved-but-failed-to-sync, and the three sizes
\* sum to N.
C1_PartitionEveryCall == (Returned /\ isConfigured) => Partition

\* C1, amended: the partition holds for the calls that return after step 4
\* or because no request resolved; the returned tracksAdded and
\* tracksNotFound then account for the N requests.
C1_PartitionWhenCompleted ==
    (Returned /\ (result.success \/ result.error = "No tracks found"))
        => /\ Partition
           /\ result.tracksAdded + Len(result.tracksNotFound) = Len(tracks)

\* a completed call of three requests with one request in each set
C1_OneInEachSet ==
    /\ Returned
    /\ result.success
    /\ Len(tracks) = 3
    /\ addedCount = 1
    /\ Len(notFoundTracks) = 1
    /\ Len(failedTracks) = 1

\* C3: collection-add is called for a catalog item only after a library add
\* of that item was accepted, in the batch handler, in tryAddFromCatalog and
\* in addCatalogTrackToPlaylist.
C3_LibraryAddFirst ==
    /\ scriptIds \subseteq libraryAdded
    /\ \A k \in DOMAIN scriptCalls :
          scriptCalls[k].id # "none" => scriptCalls[k].id \in libraryAdded
    /\ (op \in CreateOps /\ scriptIds # {}) => bulkAdd = "ok"

\* collection-add was called for two items of a batch
C3_TwoItemsSynced ==
    op = "create_catalog_playlist" /\ Cardinality(scriptIds) = 2

LibraryAddErrors ==
    {"User token required", "Failed to add tracks to library",
     "Error adding tracks to library"}

\* C4: when the bulk library add is refused, the call has ended with one
\* failure and tracksAdded 0, no playlist was created and collection-add was
\* not called; the resolved requests are not listed one by one.
C4_BulkAddFailure ==
    bulkAdd = "failed" =>
        /\ pc = "done"
        /\ ~result.success
        /\ result.tracksAdded = 0
        /\ result.error \in LibraryAddErrors
        /\ result.tracksNotFound = notFoundTracks
        /\ Reqs(result.tracksNotFound) \cap Reqs(foundTracks) = {}
        /\ playlistCreates = 0
        /\ scriptCalls = <<>>
        /\ scriptIds = {}
        /\ succeeded = {}
        /\ libraryIds = <<>>

\* the bulk add of two resolved tracks was refused
C4_TwoResolvedRefused ==
    /\ Returned
    /\ bulkAdd = "failed"
    /\ Len(foundTracks) = 2

\* a smartSearchTrack call is under way or has returned
InCall == ss.state \in {"searching", "returned"}

ReturnedTrack == ss.state = "returned" /\ ss.ret # Null

ReturnedNull == ss.state = "returned" /\ ss.ret = Null

\* C2: smartSearchTrack returns a track only if its score against the
\* request is at least 0.4 (4 tenths); a search whose best candidate is
\* below it, or that gave no candidate, contributes no track.
C2_Threshold ==
    /\ ReturnedTrack => ss.scores[ss.ret] >= 4
    /\ (ss.state = "returned" /\ lastOut \in {"low", "empty", "error"})
           => ss.ret = Null

\* a track is returned with a score of exactly 0.4
C2_ReturnedAtThreshold == ReturnedTrack /\ ss.scores[ss.ret] = 4

\* C5: the search that first gives a candidate at or above the threshold is
\* the last search of the call; when it is the first variant, exactly one
\* catalog search is made.
C5_ShortCircuit ==
    /\ hitAt # 0 => (Len(issued) = hitAt /\ ss.state # "searching")
    /\ ReturnedTrack => hitAt = Len(issued)

\* the first of eight variants is accepted and one search was made
C5_FirstVariantOnly ==
    /\ ReturnedTrack
    /\ Len(ss.queries) = 8
    /\ hitAt = 1
    /\ Len(issued) = 1

IsPrefix(a, b) == Len(a) <= Len(b) /\ \A k \in DOMAIN a : a[k] = b[k]

FourVariants(t, a) == <<Spaced(t, a), Spaced(a, t), t, a>>

\* the order of C6 as the specification states it
StatedOrder(t, a) ==
    LET nt == normalizeString(t)
        na == normalizeString(a)
    IN  FourVariants(nt, na)
          \o (IF nt # t \/ na # a THEN FourVariants(t, a) ELSE <<>>)

\* the order when no artist is given or the artist normalizes to nothing
TrackOnlyOrder(t) ==
    LET nt == normalizeString(t)
    IN  <<nt>> \o (IF nt # t THEN <<t>> ELSE <<>>)

\* C6 as the specification states it: the searches of a call are, in order,
\* normalized "track artist", "artist track", track, artist, then the same
\* four with the raw strings if a normalized form differs from its input.
C6_StatedOrder ==
    InCall => IsPrefix(issued, StatedOrder(ss.trackName, ss.artistName))

\* C6, amended: that order holds when an artist is given and its normalized
\* form is not empty; otherwise the searches are the normalized track, then
\* the raw track if the normalized track differs from it.
C6_QueryOrder ==
    InCall =>
        IsPrefix(issued,
                 IF Truthy(ss.artistName)
                    /\ normalizeString(ss.artistName) # <<>>
                 THEN StatedOrder(ss.trackName, ss.artistName)
                 ELSE TrackOnlyOrder(ss.trackName))

\* a call that made all eight searches
C6_AllEightIssued == InCall /\ Len(issued) = 8

\* C7: an error of a catalog search never leaves smartSearchTrack: the call
\* goes on with the next variant, and returns null only when every variant
\* was searched.
C7_ErrorsSwallowed ==
    /\ ss.state = "threw" => issued = <<>>
    /\ (ss.state = "searching" /\ lastOut = "error")
           => ss.qi = Len(issued) + 1
    /\ ReturnedNull => Len(issued) = Len(ss.queries)
    /\ (ss.state = "returned" /\ lastOut = "error") => ss.ret = Null

\* a search failed and a later variant of the same call gave the track
C7_FoundAfterError == ReturnedTrack /\ errSeen

CatalogTrackById(id) == CHOOSE c \in Catalog : c.id = id

\* the terms of C8 for a catalog track
StatedTerms(c) ==
    << c.name,
       c.name \o <<" ">> \o c.artistName,
       c.artistName \o <<" ">> \o c.name,
       c.name \o <<" ">> \o c.albumName >>

\* C8 as the specification states it: for an item, the k-th collection-add
\* call of the batch handler uses the k-th of "track", "track artist",
\* "artist track", "track album" of the resolved catalog track; at most
\* four calls are made and none follows a success.
C8_TermsInOrder ==
    op = "create_catalog_playlist" =>
        /\ Len(scriptCalls) <= 4
        /\ \A k \in DOMAIN scriptCalls :
              scriptCalls[k].term =
                  StatedTerms(CatalogTrackById(scriptCalls[k].id))[k]

\* C9: a request whose resolution fails, and an item whose collection-add
\* fails, do not stop the others: once step 1 is over every request has its
\* entry in searchResults and a request that raised is in notFoundTracks,
\* the handler's catch is not taken, and a call that went through step 4
\* has tried every resolved item and put it in added or in failedTracks.
C9_ItemScoped ==
    /\ (op \in CreateOps /\ isConfigured /\ pc \notin {"start", "resolve"})
           => /\ Len(searchResults) = Len(tracks)
              /\ \A k \in AllReqs :
                    tracks[k].track = Undefined
                        => k \in Reqs(notFoundTracks)
    /\ Returned => result.error # "thrown error"
    /\ (Returned /\ result.success)
           => /\ Range(IdsOf(foundTracks)) = scriptIds
              /\ Reqs(foundTracks) = succeeded \cup Reqs(failedTracks)

\* the first request raised in step 1, the second failed in step 4, and the
\* third was added
C9_LaterItemsProceed ==
    /\ Returned
    /\ result.success
    /\ Len(tracks) = 3
    /\ tracks[1].track = Undefined
    /\ 2 \in Reqs(failedTracks)
    /\ 3 \in succeeded

\* the scenario of C10: of three requests, 1 and 3 resolve and 2 does not,
\* the library add and the playlist creation succeed, request 1 is added
\* and the script finds no track for any of the four terms of request 3
Scenario ==
    /\ Returned
    /\ Len(tracks) = 3
    /\ Len(searchResults) = 3
    /\ searchResults[1] # Null
    /\ searchResults[2] = Null
    /\ searchResults[3] # Null
    /\ bulkAdd = "ok"
    /\ playlistCreates = 1
    /\ 1 \in succeeded
    /\ 3 \notin succeeded
    /\ Len(scriptCalls) = 4
    /\ onlyNoTracks

C16_ExactMatch ==
    \A c \in Catalog :
        (/\ ss.state \in {"searching", "returned"}
         /\ toLowerCase(c.name) = toLowerCase(ss.trackName)
         /\ toLowerCase(c.artistName) = toLowerCase(ss.artistName)) =>
            /\ ss.scores[c] = 10
            /\ (Len(issued) = 1 /\ soleResult = c) =>
                  (ss.state = "returned" /\ ss.ret = c)

\* the request in lower case was answered, by the first search, with the
\* one track of the catalog that equals it but for the case
C16_ReturnedOnFirstVariant ==
    /\ ss.trackName = toLowerCase(HeyJoe)
    /\ ss.artistName = toLowerCase(Abe)
    /\ Len(issued) = 1
    /\ soleResult = CatalogTrackById("k1")
    /\ ss.state = "returned"
    /\ ss.ret = CatalogTrackById("k1")
    /\ ss.scores[CatalogTrackById("k1")] = 10

\* C18: in a create_catalog_playlist call the sleep of 2000 ms happens at
\* most once; it has happened only after the bulk library add succeeded,
\* and it has happened before the playlist is created and before any
\* collection-add call, however many items and failed terms follow.
C18_SettleOnce ==
    op = "create_catalog_playlist" =>
        /\ settleDelays <= 1
        /\ settleDelays = 1 => bulkAdd = "ok"
        /\ pc = "settle" => (settleDelays = 0 /\ bulkAdd = "ok")
        /\ (playlistCreates > 0 \/ scriptIds # {} \/ scriptCalls # <<>>) =>
              settleDelays = 1

\* a batch of two resolved items ended, one of them after four failed terms,
\* with one sleep of 2000 ms
C18_OneDelayTwoItems ==
    /\ op = "create_catalog_playlist"
    /\ pc = "done"
    /\ Len(foundTracks) = 2
    /\ Len(failedTracks) = 1
    /\ addedCount = 1
    /\ settleDelays = 1

\* C19: while a batch is resolved the requests are taken one at a time in
\* input order, and the sleep of 100 ms elapses between any two consecutive
\* catalog searches, those for successive queries of one request included.
C19_DelayedInOrder ==
    op \in CreateOps =>
        /\ sinceSearch # "undelayed"
        /\ ss.state = "searching" =>
              /\ ss.trackName = tracks[i].track
              /\ Len(searchResults) = i - 1

\* C20: for every batch, handleCreateCatalogPlaylist eventually returns, and
\* on the way it issues at most 8 catalog searches for a request and at most
\* 4 collection-add calls for a resolved item.
C20_Terminates ==
    /\ [](Len(issued) <= 8 /\ Len(scriptCalls) <= 4)
    /\ <>(pc = "done")

\* a call returned after 8 searches for its last request and 4 collection-add
\* calls for its last resolved item
C20_ReturnedAfterAllCalls ==
    /\ op = "create_catalog_playlist"
    /\ pc = "done"
    /\ result.success
    /\ Len(issued) = 8
    /\ Len(scriptCalls) = 4

\* the tools that start with the isConfigured() gate
GatedOps == CreateOps \cup SearchOps \cup {"add_catalog_track_to_library"}

\* C12: without a developer token, handleCatalogSearch,
\* handleAddCatalogTrack, handleCreateCatalogPlaylist and
\* handleDiscoverSearchCatalog return the error 'MusicKit not configured'
\* and call no catalog or library operation of the client; with the token
\* they never return that error, whatever the remote answers.
C12_NotConfigured ==
    (op \in GatedOps /\ pc = "done") =>
        IF developerToken
        THEN result.error # "MusicKit not configured"
        ELSE /\ ~result.success
             /\ result.error = "MusicKit not configured"
             /\ ~clientCalled

\* handleDiscoverSearchCatalog returned for a client without developer token
C12_DiscoverRefused ==
    /\ op = "discover_search_catalog"
    /\ pc = "done"
    /\ ~developerToken
    /\ result.error = "MusicKit not configured"
    /\ ~result.catalogAvailable
    /\ ~clientCalled

(***************************************************************************)
(* Properties of the methods of the client, under ClientSpec.              *)
(***************************************************************************)
LibraryOps == {"addTrackToLibrary", "addTracksToLibrary",
               "createPlaylistWithTracks"}

\* C11: on a client that holds the developer token and no user token, a
\* searchCatalog call sends its request, and each of addTrackToLibrary,
\* addTracksToLibrary and createPlaylistWithTracks returns the failure that
\* asks for the user token and sends no request.
C11_UserTokenGate ==
    (developerToken /\ ~userToken) =>
        /\ lastCall.fn = "searchCatalog" => lastCall.sent
        /\ lastCall.fn \in LibraryOps =>
              /\ ~lastCall.sent
              /\ ~lastCall.ret.success
              /\ lastCall.ret.message = "User token required"

\* a createPlaylistWithTracks call was refused for the missing user token
C11_PlaylistRefused ==
    /\ developerToken
    /\ ~userToken
    /\ lastCall.fn = "createPlaylistWithTracks"
    /\ ~lastCall.sent
    /\ lastCall.ret.message = "User token required"

\* C13: getTrackById returns null, and does not throw, when the remote
\* answers 404, and throws for every other status outside 200..299;
\* searchCatalog throws for every status outside 200..299, 404 included.
C13_StatusHandling ==
    (lastCall.fn \in {"getTrackById", "searchCatalog"}
       /\ lastCall.sent
       /\ lastCall.resp.kind = "response"
       /\ ~ok(lastCall.resp.status)) =>
        IF lastCall.fn = "searchCatalog" THEN lastCall.ret.kind = "error"
        ELSE IF lastCall.resp.status = 404 THEN lastCall.ret.kind = "null"
        ELSE lastCall.ret.kind = "throw"

\* a getTrackById call was answered 404 and returned null
C13_NullOn404 ==
    /\ lastCall.fn = "getTrackById"
    /\ lastCall.sent
    /\ lastCall.resp.kind = "response"
    /\ lastCall.resp.status = 404
    /\ lastCall.ret.kind = "null"

\* C14: scoreTrackMatch returns a value between 0 and 1 inclusive (0 to 10
\* tenths) for every candidate, target track and optional target artist,
\* empty strings included.
C14_ScoreInRange ==
    lastCall.fn = "scoreTrackMatch" => lastCall.ret \in 0..10

\* the candidate without a name was scored against the empty track and the
\* empty artist
C14_EmptyStringsScored ==
    /\ lastCall.fn = "scoreTrackMatch"
    /\ lastCall.track.name = <<>>
    /\ lastCall.targetTrack = <<>>
    /\ lastCall.targetArtist = <<>>
    /\ lastCall.ret \in 0..10

\* the words of the first list that contain, or are contained in, a word of
\* the second
Matching(words1, words2) ==
    { x \in DOMAIN words1 :
        \E y \in DOMAIN words2 : \/ includes(words2[y], words1[x])
                                 \/ includes(words1[x], words2[y]) }

\* the third tier as the code has it: the number of words of the candidate
\* that match is at least 60% of the length of the shorter list
CodeOverlap(cand, target) ==
    10 * Cardinality(Matching(clean(cand), clean(target)))
      >= 6 * Min(Len(clean(cand)), Len(clean(target)))

\* the third tier as stated: at least 60% of the words of the smaller list
\* are substrings of a word of the other list
StatedOverlap(cand, target) ==
    LET w1 == clean(cand)
        w2 == clean(target)
        small == IF Len(w1) <= Len(w2) THEN w1 ELSE w2
        other == IF Len(w1) <= Len(w2) THEN w2 ELSE w1
        found == { x \in DOMAIN small :
                     \E y \in DOMAIN other : includes(other[y], small[x]) }
    IN  10 * Cardinality(found) >= 6 * Len(small)

\* the three tiers on the lower-cased strings, `low` being the third credit
CodeTiers(cand, target, low) ==
    LET a == toLowerCase(cand)
        b == toLowerCase(target)
    IN  IF a = b THEN 5
        ELSE IF includes(a, b) \/ includes(b, a) THEN 3
        ELSE IF CodeOverlap(a, b) THEN low
        ELSE 0

\* the three tiers as stated: the first compares the normalized strings
StatedTiers(cand, target, low) ==
    LET a == toLowerCase(cand)
        b == toLowerCase(target)
    IN  IF toLowerCase(normalizeString(cand))
             = toLowerCase(normalizeString(target)) THEN 5
        ELSE IF includes(a, b) \/ includes(b, a) THEN 3
        ELSE IF StatedOverlap(a, b) THEN low
        ELSE 0

\* C15 as stated: the score is the capped sum of a track component (0.5 for
\* an exact case-insensitive match of the normalized strings, else 0.3 for
\* containment, else 0.2 when 60% of the words of the smaller cleaned list
\* are found as substrings in the other, else 0) and an artist component
\* (0.5 / 0.3 / 0.1, a flat 0.2 when no artist is supplied).
C15_StatedRule ==
    lastCall.fn = "scoreTrackMatch" =>
        lastCall.ret =
            Min(StatedTiers(lastCall.track.name, lastCall.targetTrack, 2)
                  + (IF Truthy(lastCall.targetArtist)
                     THEN StatedTiers(lastCall.track.artistName,
                                      lastCall.targetArtist, 1)
                     ELSE 2),
                10)

\* C15 as the code has it: the score is the capped sum of a track component
\* and an artist component, each decided on the lower-cased strings, which
\* are not normalized: 0.5 when they are equal, else 0.3 when one contains
\* the other, else 0.2 (0.1 for the artist) when the number of cleaned words
\* of the candidate that contain or are contained in a cleaned word of the
\* target is at least 60% of the length of the shorter cleaned list, else 0;
\* the artist component is a flat 0.2 when the target artist is missing or
\* empty.
C15_CodeRule ==
    lastCall.fn = "scoreTrackMatch" =>
        lastCall.ret =
            Min(CodeTiers(lastCall.track.name, lastCall.targetTrack, 2)
                  + (IF Truthy(lastCall.targetArtist)
                     THEN CodeTiers(lastCall.track.artistName,
                                    lastCall.targetArtist, 1)
                     ELSE 2),
                10)

\* an accented target was scored against its unaccented candidate: the
\* track component is the third tier, and the artist matches exactly
C15_AccentedScored ==
    /\ lastCall.fn = "scoreTrackMatch"
    /\ lastCall.track.name = HeyJoe
    /\ lastCall.track.artistName = Abe
    /\ lastCall.targetTrack = HeyJoeAccented
    /\ lastCall.targetArtist = Abe
    /\ lastCall.ret = 7

\* C17: normalizeString is idempotent: normalizing its result again gives
\* the same string.
C17_Idempotent ==
    lastCall.fn = "normalizeString" =>
        normalizeString(lastCall.ret) = lastCall.ret

NotNull(t) == t # Null

\* the catalog IDs of the requests that smartSearchTrack resolved, in the
\* order of input.tracks
ResolvedIds ==
    LET resolved == SelectSeq(searchResults, NotNull)
    IN  [k \in DOMAIN resolved |-> resolved[k].id]

\* C22: a batch makes at most one bulk library-add call, exactly one once
\* it has returned with at least one request resolved and none when no
\* request resolved; the call carries one catalog ID per resolved request,
\* in input order, and nothing else.
C22_OneBulkAdd ==
    op \in CreateOps =>
      /\ Len(bulkCalls) <= 1
      /\ bulkCalls # <<>> =>
            /\ Len(searchResults) = Len(tracks)
            /\ bulkCalls[1] = ResolvedIds
            /\ bulkCalls[1] # <<>>
      /\ pc = "done" /\ Len(searchResults) = Len(tracks) =>
            (bulkCalls # <<>> <=> ResolvedIds # <<>>)

\* a batch of three returned: the first and the third request resolved to
\* different tracks, the second did not resolve, and the call carried the
\* two IDs
C22_TwoOfThreeSent ==
    /\ op \in CreateOps
    /\ pc = "done"
    /\ Len(searchResults) = 3
    /\ searchResults[2] = Null
    /\ Len(bulkCalls) = 1
    /\ Len(bulkCalls[1]) = 2
    /\ bulkCalls[1][1] # bulkCalls[1][2]

\* the catalog was searched, or the library add was called, for add_track
CatalogReached == clientCalled

\* C24 as stated: in add_track the catalog is searched if and only if
\* useCatalogSearch is set and the script found no track for the search term.
C24_Stated ==
    (op = "add_track" /\ pc = "done") =>
        (CatalogReached <=> (useCatalogSearch /\ scriptOut = "noTracks"))

\* C24: in add_track the catalog is searched if and only if useCatalogSearch
\* is set, the script found no track for the search term and the developer
\* token is configured; in every other case no catalog search and no library
\* add is made.
C24_CatalogFallback ==
    op = "add_track" =>
      /\ pc = "done" =>
            (sinceSearch # "none" <=>
               (useCatalogSearch /\ scriptOut = "noTracks" /\ developerToken))
      /\ ~(useCatalogSearch /\ scriptOut = "noTracks" /\ developerToken) =>
            /\ ~clientCalled
            /\ sinceSearch = "none"
            /\ libraryAdded = {}
            /\ pc \in {"start", "done"}

\* add_track ended with the error of the script, which was not "No tracks
\* found", with useCatalogSearch set and the tokens configured: nothing was
\* searched
C24_OtherErrorNoSearch ==
    /\ op = "add_track"
    /\ pc = "done"
    /\ useCatalogSearch
    /\ developerToken
    /\ userToken
    /\ scriptOut = "error"
    /\ ~clientCalled

\* the failure of add_track and of add_catalog_track that tells the caller
\* the track is in the library and the call can be tried again
RetryFailure ==
    Failure(IF op = "add_track" THEN "Sync delay" ELSE "Playlist add failed")

\* C25: when add_track or add_catalog_track has added the catalog track to
\* the library and then no script call for a derived search term added it to
\* the playlist, every term was tried and the call returns the failure that
\* says the track is in the library and can be retried: not a success, not
\* "Track not found"; and that failure is returned in no other case.
C25_SyncDelay ==
    (op \in ManageOps /\ pc = "done") =>
      /\ (settleDelays = 1 /\ succeeded = {}) =>
            /\ result = RetryFailure
            /\ Len(SelectSeq(scriptCalls, LAMBDA c : c.id = bestMatch.id)) =
                 Len(getLibrarySearchTerms(bestMatch))
      /\ result = RetryFailure =>
            /\ LibraryAddId \in libraryAdded
            /\ succeeded = {}

\* add_track found nothing for the caller's term, added the first catalog
\* track to the library, ran the script for the four derived terms and
\* returned the sync-delay failure
C25_AddTrackSyncDelay ==
    /\ op = "add_track"
    /\ pc = "done"
    /\ result = Failure("Sync delay")
    /\ Len(scriptCalls) = 5
    /\ bestMatch.id \in libraryAdded

\* C26: handleAddCatalogTrack calls addTrackToLibrary only when getTrackById
\* has returned a track and input.addToLibrary is not false; the output has
\* addedToLibrary = true only if that call returned success; when the track
\* was not found or addToLibrary is false, no library add is made.
C26_AddAfterFound ==
    op = "add_catalog_track_to_library" =>
      /\ catalogAdd.called =>
            (catalogAdd.got = "track" /\ catalogAdd.addToLibrary # "false")
      /\ catalogAdd.addedToLibrary =>
            (catalogAdd.called /\ catalogAdd.callSucceeded /\ result.success)
      /\ (catalogAdd.got # "track" \/ catalogAdd.addToLibrary = "false") =>
            (~catalogAdd.called /\ libraryAdded = {})

\* the track was found and addToLibrary was false: the handler returned
\* success with addedToLibrary = false and made no library add
C26_FoundNotAdded ==
    /\ op = "add_catalog_track_to_library"
    /\ pc = "done"
    /\ developerToken
    /\ userToken
    /\ catalogAdd.got = "track"
    /\ catalogAdd.addToLibrary = "false"
    /\ result.success
    /\ ~catalogAdd.addedToLibrary
    /\ ~catalogAdd.called

\* C27: smartSearchTrack returns a candidate only if its title matches the
\* requested track name in a tier (exact, containment in either direction,
\* fuzzy word overlap): the track component of the score of a returned
\* candidate is not 0.
C27_TitleMatches ==
    (ss.state = "returned" /\ ss.ret # Null) =>
        TrackPoints(toLowerCase(ss.ret.name), toLowerCase(ss.trackName)) > 0

\* the score of the k-th track of the last search, for the running call
ScoreAt(k) == ss.scores[lastResults[k]]

\* the positions in the last search of the candidates with the highest score
TopPositions ==
    {k \in DOMAIN lastResults :
        \A j \in DOMAIN lastResults : ScoreAt(j) <= ScoreAt(k)}

\* C28: the track smartSearchTrack returns is, of the candidates of the last
\* search that share the highest score, the one the remote listed first.
C28_FirstOfTies ==
    (ss.state = "returned" /\ ss.ret # Null) =>
        /\ TopPositions # {}
        /\ \E k \in TopPositions :
              /\ \A j \in TopPositions : k <= j
              /\ ss.ret = lastResults[k]

\* the search gave two different tracks with the same score, and the call
\* returned the first
C28_TieReturnedFirst ==
    /\ ss.state = "returned"
    /\ Len(lastResults) = 2
    /\ lastResults[1] # lastResults[2]
    /\ ScoreAt(1) = ScoreAt(2)
    /\ ss.ret = lastResults[1]
    /\ lastResults[1].id = "k2"

\* C29: handleCreateCatalogPlaylist returns success = true only with at
\* least one track added to the playlist: a result with tracksAdded = 0 has
\* success = false.
C29_SuccessNeedsTrack ==
    (op \in CreateOps /\ pc = "done" /\ result.tracksAdded = 0) =>
        ~result.success

(***************************************************************************)
(* Properties of TokenSpec.                                                *)
(***************************************************************************)
\* the user token the client holds
HeldToken ==
    constructorUserToken(developerToken, envUserToken, tokenStore, now)

HeldFromEnv == Truthy(envUserToken)

\* the time the held token expires at
HeldExpiresAt == IF HeldFromEnv THEN envExpiresAt ELSE tokenStore.expiresAt

MutatingRequestSent == lastCall.fn \in LibraryOps /\ lastCall.sent

IsSearch(e) == e.call = "smartSearchTrack"

IsAdded(e) == e.call = "executeAppleScript" /\ e.kind = "added"

\* the entry names a request of the batch `input`, at its position
OwnRequest(e, input) ==
    /\ e.req \in DOMAIN input
    /\ input[e.req].track = e.track
    /\ input[e.req].artist = e.artist

OwnFound(f, input) ==
    /\ f.req \in DOMAIN input
    /\ input[f.req].track = f.requestedTrack
    /\ input[f.req].artist = f.requestedArtist

\* the frame holds what the answers to the calls of its own invocation make
\* of its own input
OwnState(f) ==
    LET searches == SelectSeq(f.log, IsSearch)
    IN  /\ f.searchResults = [k \in DOMAIN searches |-> searches[k].track]
        /\ \A k \in DOMAIN f.foundTracks :
               /\ OwnFound(f.foundTracks[k], f.tracks)
               /\ f.foundTracks[k].id = searches[f.foundTracks[k].req].track.id
        /\ \A k \in DOMAIN f.notFoundTracks :
               OwnRequest(f.notFoundTracks[k], f.tracks)
        /\ \A k \in DOMAIN f.failedTracks :
               OwnRequest(f.failedTracks[k], f.tracks)
        /\ f.addedCount = Len(SelectSeq(f.log, IsAdded))
        /\ \A k \in DOMAIN f.result.tracksNotFound :
               OwnRequest(f.result.tracksNotFound[k], f.tracks)
        /\ f.result.success => f.result.tracksAdded = f.addedCount

\* C21: two interleaved batch invocations share no mutable state: the arrays
\* of each invocation hold the answers to its own searches, its outcome sets
\* name only its own requests, its count of added tracks is the number of its
\* own script calls that succeeded, and two invocations with the same input
\* that got the same answers and stand at the same await are in the same
\* state, whatever the other one did in between.
C21_NoSharedState ==
    op = "pair" =>
      /\ \A p \in Invocations : OwnState(pair[p])
      /\ \A p, q \in Invocations :
            ( /\ pair[p].tracks = pair[q].tracks
              /\ pair[p].log = pair[q].log
              /\ pair[p].pc = pair[q].pc ) => pair[p] = pair[q]

\* both invocations are between two awaits with different batches: the first
\* is adding its resolved track to its playlist after a failed script call,
\* the second has resolved another track and is about to add it to the
\* library
C21_BothInFlight ==
    /\ op = "pair"
    /\ pair[1].pc = "addToPlaylist"
    /\ pair[1].ti = 2
    /\ pair[2].pc = "addLibrary"
    /\ pair[2].foundTracks # <<>>
    /\ pair[1].foundTracks[1].id # pair[2].foundTracks[1].id

(***************************************************************************)
(* Properties of OAuthSpec.                                                *)
(***************************************************************************)
IsSettled(p) == p.state \in {"resolved", "rejected"}

\* handleCallback handles a /callback request that carries an error or no
\* token
RefusedCallback ==
    /\ handled' = handled + 1
    /\ lastRequest'.path = "/callback"
    /\ (lastRequest'.error \/ ~Truthy(lastRequest'.token))

\* C30: the promise of authorize() settles, and once settled it never
\* changes; it resolves with a token only in a step after which the token
\* store holds that token; a /callback request with an error or without a
\* token writes nothing to the store and rejects the pending promise; the
\* timer firing writes nothing to the store and leaves a resolved promise
\* as it is.
C30_SettlesOnce ==
    /\ [][ /\ IsSettled(promise) => promise' = promise
           /\ (~IsSettled(promise) /\ promise'.state = "resolved") =>
                 /\ Truthy(promise'.token)
                 /\ tokenStore' = Stored(promise'.token, now + Lifetime)
           /\ RefusedCallback =>
                 /\ tokenStore' = tokenStore
                 /\ promise.state = "pending" => promise'.state = "rejected"
           /\ (timer = "armed" /\ timer' = "fired") =>
                 /\ tokenStore' = tokenStore
                 /\ promise.state = "resolved" => promise' = promise ]_vars
    /\ <>IsSettled(promise)

\* the callback brought a token, the promise resolved with it, and the
\* timer fired afterwards: the promise and the store still hold the token
C30_TimeoutAfterSuccess ==
    /\ op = "authorize"
    /\ promise.state = "resolved"
    /\ promise.token = TokenA
    /\ timer = "fired"
    /\ tokenStore = Stored(TokenA, now + Lifetime)

====
